---- MODULE Spec2Model ----
(***************************************************************************)
(* Model of the Mistmint comment loader of Cannibal-Turtle/rss-feed:       *)
(* src/host_utils/host_mistmint.py, load_comments_mistmint and the helpers *)
(* it calls (enrich_all_comments, the thread matchers, the raw-text        *)
(* adjacency flags).                                                       *)
(*                                                                         *)
(* Conventions.  A Python string is a sequence of one-character strings,   *)
(* so "" and None are both <<>> (the code tests them with `not x` or       *)
(* `v not in (None, "")`).  A timestamp string is the number of seconds it *)
(* denotes, or BadTs when it is missing or does not parse.                 *)
(***************************************************************************)
EXTENDS Integers, Sequences, FiniteSets, TLC

VARIABLES
    raw,        \* r.text of the accepted response (raw_used)
    tight,      \* the payload: tight[k] iff items k and k+1 are joined by a bare ','
    items,      \* pick_list(payload): the parsed records of the batch
    thread,     \* remote: the chapter thread of chapter ChapId
    home,       \* remote: the homepage thread of novel NovelIdN1
    altFound,   \* remote: _find_chapter_slug_live finds a slug for the label
    pc,         \* position in load_comments_mistmint
    idToUser,   \* id_to_user
    flags,      \* flags
    enriched,   \* enriched (enrich_all_comments' out)
    i,          \* loop index of the loop the loader is in
    stage,      \* strategy the resolver is about to try for record i
    replyTo,    \* reply_to of record i so far
    by,         \* strategy that set replyTo ("" while none did)
    tried,      \* strategies attempted for record i, in order
    out,        \* out: the emitted comments
    threadCache,\* enrich_all_comments' thread_cache (ids that are cached)
    homeCache,  \* _MISTMINT_HOME_CACHE (ids that are cached)
    fetches,    \* requests issued so far: [thread |-> n, home |-> n]
    \* --- the fetch phase of load_comments_mistmint ---
    token,      \* MISTMINT_TOKEN is set
    cookie,     \* MISTMINT_COOKIE is set
    remote,     \* remote: what the endpoint answers to each credential tier
    fpc,        \* position in the fetch phase
    requested,  \* the tiers get_with was called for, in order
    payload,    \* payload
    raw_used,   \* raw_used
    DIAG,       \* the kinds passed to diag_fail, in order
    outcome,    \* how the call ended: "" (running), "items", "empty", "raised"
    \* --- paid_feed_generator.py: the admission gate ---
    unstarted,  \* process_novel tasks created by main_async that have not run yet
    waiting,    \* tasks suspended in semaphore.acquire()
    inside,     \* tasks inside `async with semaphore:`
    left,       \* tasks that have left the gate
    sem_value,  \* semaphore._value
    \* --- paid_feed_generator.py: scraping and the feed ---
    now,        \* datetime.now(timezone.utc), in hours
    sources,    \* remote: what each tracked novel's site serves
    results,    \* the lists returned by the finished process_novel tasks
    rss_items,  \* rss_items of main_async
    ppc,        \* position in main_async
    \* --- host_nu_comments.py: the aggregated comments file ---
    aggregated, \* the <item> blocks of the aggregated feed file, in order
    nu_items,   \* the batch handed to the latest merge_into_aggregated
    \* --- scripts that keep a state across runs ---
    store,      \* what the script persists (files, module globals), by field
    world,      \* what the run meets: configuration and remote answers
    sent,       \* what the runs have emitted so far, in order
    run,        \* runs started so far
    lpc         \* position in the current run

loaderVars == <<raw, tight, items, thread, home, altFound, pc, idToUser, flags, enriched,
                i, stage, replyTo, by, tried, out, threadCache, homeCache, fetches>>

fetchVars == <<token, cookie, remote, fpc, requested, payload, raw_used, DIAG, outcome>>

gateVars == <<unstarted, waiting, inside, left, sem_value>>

paidVars == <<now, sources, results, rss_items, ppc>>

mergeVars == <<aggregated, nu_items>>

runVars == <<store, world, sent, run, lpc>>

feedVars == <<gateVars, paidVars, mergeVars, runVars>>

vars == <<loaderVars, fetchVars, feedVars>>

\* ------------------------------------------------------------------------
\* Bounds
\* ------------------------------------------------------------------------
MaxItems == 3       \* records in one fetched batch

Min(S) == CHOOSE x \in S : \A y \in S : x <= y

\* ------------------------------------------------------------------------
\* Raw response text
\* ------------------------------------------------------------------------
IsWs(ch) == ch \in {" ", "\n"}

\* re.search(r'"data"\s*:\s*\[', raw): the index just after the '[' of the
\* leftmost match, 0 when there is none
SkipWs(s, k) == Min({j \in k..(Len(s) + 1) : j > Len(s) \/ ~IsWs(s[j])})

DataMatchEnd(s, k) ==
    IF k + 5 > Len(s) \/ SubSeq(s, k, k + 5) # <<"\"", "d", "a", "t", "a", "\"">>
    THEN 0
    ELSE LET c == SkipWs(s, k + 6)
         IN IF c > Len(s) \/ s[c] # ":" THEN 0
            ELSE LET b == SkipWs(s, c + 1)
                 IN IF b > Len(s) \/ s[b] # "[" THEN 0 ELSE b + 1

DataStart(s) ==
    LET hits == {k \in 1..Len(s) : DataMatchEnd(s, k) # 0}
    IN IF hits = {} THEN 0 ELSE DataMatchEnd(s, Min(hits))

\* the while loop of _extract_data_array_segment from position k: the index
\* of the ']' that closes the data array, 0 when the text ends first
RECURSIVE ScanClose(_, _, _, _)
ScanClose(s, k, depth, inString) ==
    IF k > Len(s) THEN 0
    ELSE IF inString
         THEN IF s[k] = "\\" THEN ScanClose(s, k + 2, depth, TRUE)
              ELSE ScanClose(s, k + 1, depth, s[k] # "\"")
         ELSE IF s[k] = "\"" THEN ScanClose(s, k + 1, depth, TRUE)
              ELSE IF s[k] = "[" THEN ScanClose(s, k + 1, depth + 1, FALSE)
              ELSE IF s[k] = "]"
                   THEN IF depth = 1 THEN k
                        ELSE ScanClose(s, k + 1, depth - 1, FALSE)
                   ELSE ScanClose(s, k + 1, depth, FALSE)

NoSegment == <<"None">>

_extract_data_array_segment(s) ==
    LET b == DataStart(s)
    IN IF b = 0 THEN NoSegment
       ELSE LET e == ScanClose(s, b, 1, FALSE)
            IN IF e = 0 THEN NoSegment ELSE SubSeq(s, b, e - 1)

\* one match of r'}(?P<ws1>\s*),(?P<ws2>\s*){' starting at k:
\* [end |-> index of the '{', tight |-> ws1 + ws2 = ''], end = 0 when no match
BoundaryAt(seg, k) ==
    IF seg[k] # "}" THEN [end |-> 0, tight |-> FALSE]
    ELSE LET c == SkipWs(seg, k + 1)
         IN IF c > Len(seg) \/ seg[c] # "," THEN [end |-> 0, tight |-> FALSE]
            ELSE LET b == SkipWs(seg, c + 1)
                 IN IF b > Len(seg) \/ seg[b] # "{"
                    THEN [end |-> 0, tight |-> FALSE]
                    ELSE [end |-> b, tight |-> (c = k + 1 /\ b = c + 1)]

\* re.finditer over seg: the leftmost non-overlapping matches, in order
RECURSIVE BoundaryFlags(_, _)
BoundaryFlags(seg, k) ==
    IF k > Len(seg) THEN <<>>
    ELSE LET m == BoundaryAt(seg, k)
         IN IF m.end = 0 THEN BoundaryFlags(seg, k + 1)
            ELSE <<m.tight>> \o BoundaryFlags(seg, m.end + 1)

AllSet(f) == \A k \in 1..Len(f) : f[k]

\* the flags before the credibility test of the return statement
ComputedFlags(s) ==
    LET seg == _extract_data_array_segment(s)
    IN IF seg = NoSegment THEN <<>> ELSE BoundaryFlags(seg, 1)

\* _mistmint_reply_flags_from_raw without the credibility test
FlagsAlwaysCredible(s) == ComputedFlags(s)

_mistmint_reply_flags_from_raw(s) ==
    LET f == ComputedFlags(s)
    IN IF f # <<>> /\ AllSet(f) THEN <<>> ELSE f

\* ------------------------------------------------------------------------
\* The payloads the remote API serialises: each item is a JSON object, the
\* separators between items carry the whitespace
\* ------------------------------------------------------------------------
Shapes == {"plain", "nestedTight", "nestedSpaced", "string"}

ItemText(shape) ==
    CASE shape = "plain"        -> <<"{", "x", "}">>
      [] shape = "nestedTight"  -> <<"{", "x", "[", "{", "x", "}", ",", "{", "x", "}", "]", "}">>
      [] shape = "nestedSpaced" -> <<"{", "x", "[", "{", "x", "}", ",", " ", "{", "x", "}", "]", "}">>
      [] shape = "string"       -> <<"{", "\"", "}", ",", "{", "]", "\"", "}">>

Separators == {<<",">>, <<",", " ">>, <<" ", ",", "\n">>}

RECURSIVE JoinItems(_, _)
JoinItems(shapes, seps) ==
    IF Len(shapes) = 0 THEN <<>>
    ELSE IF Len(shapes) = 1 THEN ItemText(shapes[1])
    ELSE ItemText(shapes[1]) \o seps[1] \o JoinItems(Tail(shapes), Tail(seps))

Envelopes == {"data", "spaced", "bare"}

RawText(env, shapes, seps) ==
    CASE env = "data"   -> <<"{", "\"", "d", "a", "t", "a", "\"", ":", "[">>
                           \o JoinItems(shapes, seps) \o <<"]", "}">>
      [] env = "spaced" -> <<"{", "\"", "d", "a", "t", "a", "\"", " ", ":", " ", "[">>
                           \o JoinItems(shapes, seps) \o <<"]", "}">>
      [] env = "bare"   -> <<"[">> \o JoinItems(shapes, seps) \o <<"]">>

\* ------------------------------------------------------------------------
\* Canonicalisation
\* ------------------------------------------------------------------------
BadTs == 0 - 1             \* a timestamp string that is missing or unparseable
NoneDt == 0 - 1            \* the None that _iso_dt and _parse_when return

Lower(ch) == CASE ch = "A" -> "a" [] ch = "B" -> "b" [] OTHER -> ch

IsAlnum(ch) == ch \in {"a", "b", "A", "B", "x", "y", "1", "2"}

Casefold(s) == [k \in 1..Len(s) |-> Lower(s[k])]

\* re.sub(r'[\W_]+', '', s.casefold())
_canon_name(s) == SelectSeq(Casefold(s), IsAlnum)

\* str.strip()
Strip(s) ==
    LET keep == {k \in 1..Len(s) : ~IsWs(s[k])}
    IN IF keep = {} THEN <<>>
       ELSE SubSeq(s, Min(keep), CHOOSE k \in keep : \A j \in keep : j <= k)

\* re.sub(r"\s+", " ", s): every whitespace run becomes one space
RECURSIVE CollapseWs(_)
CollapseWs(s) ==
    IF s = <<>> THEN <<>>
    ELSE IF IsWs(s[1])
         THEN IF Len(s) > 1 /\ IsWs(s[2]) THEN CollapseWs(Tail(s))
              ELSE <<" ">> \o CollapseWs(Tail(s))
         ELSE <<s[1]>> \o CollapseWs(Tail(s))

\* "zw" stands for a zero-width character (U+200B, U+FEFF)
NotZeroWidth(ch) == ch # "zw"

_norm(s) == CollapseWs(Strip(SelectSeq(s, NotZeroWidth)))

_iso_dt(ts) == IF ts = BadTs THEN NoneDt ELSE ts

_user_str(v) == Strip(v)

Abs(n) == IF n < 0 THEN 0 - n ELSE n

ThreadTolerance == 1
MatchTolerance == 300
AdjacencyTolerance == 120

\* ------------------------------------------------------------------------
\* Threads: a payload's data is a sequence of top-level entries, each with
\* its replies.  Flatten gives the entries in the order the loops visit
\* them, each with the user of its enclosing top-level entry.
\* ------------------------------------------------------------------------
NoHit == [kind |-> "miss"]

RECURSIVE Flatten(_)
Flatten(data) ==
    IF data = <<>> THEN <<>>
    ELSE LET top == data[1]
         IN <<[kind |-> "top", e |-> top, top |-> top]>>
            \o [k \in 1..Len(top.replies) |->
                   [kind |-> "reply", e |-> top.replies[k], top |-> top]]
            \o Flatten(Tail(data))

\* the first visited entry among those at the positions hits
FirstHit(data, hits) ==
    IF hits = {} THEN NoHit ELSE Flatten(data)[Min(hits)]

Visited(data) == 1..Len(Flatten(data))

\* match_comment_in_thread
match_comment_in_thread(data, username, created_at_iso) ==
    LET want_name == _canon_name(username)
        want_dt == _iso_dt(created_at_iso)
        time_close(a) ==
            IF want_dt = NoneDt THEN a = created_at_iso
            ELSE _iso_dt(a) # NoneDt /\ Abs(_iso_dt(a) - want_dt) <= ThreadTolerance
        same(c) == _canon_name(_user_str(c.user)) = want_name /\ time_close(c.createdAt)
    IN FirstHit(data, {k \in Visited(data) : same(Flatten(data)[k].e)})

\* match_comment_on_homepage_by_id, given the payload of the homepage thread
match_comment_on_homepage_by_id(data, author, body_raw, posted_at) ==
    LET want_name == _canon_name(author)
        want_dt == _iso_dt(posted_at)
        want_body == _norm(body_raw)
        time_close(theirs) ==
            IF want_dt = NoneDt THEN theirs = posted_at
            ELSE _iso_dt(theirs) # NoneDt /\ Abs(_iso_dt(theirs) - want_dt) <= MatchTolerance
        hit(c) == /\ _canon_name(_user_str(c.user)) = want_name
                  /\ time_close(c.createdAt)
                  /\ (want_body = <<>> \/ _norm(c.content) = want_body)
    IN FirstHit(data, {k \in Visited(data) : hit(Flatten(data)[k].e)})

\* let self-replies show up if desired
ALLOW_SELF_REPLIES == TRUE

\* _is_same of resolve_reply_to_on_chapter_by_id
_is_same(obj, author, body_raw, posted_at) ==
    /\ _canon_name(obj.user) = _canon_name(author)
    /\ _norm(obj.content) = _norm(body_raw)
    /\ \/ _iso_dt(posted_at) = NoneDt
       \/ _iso_dt(obj.createdAt) = NoneDt
       \/ Abs(_iso_dt(obj.createdAt) - _iso_dt(posted_at)) <= MatchTolerance

\* the first entry of the pages that _is_same accepts
ChapterHit(pages, author, body_raw, posted_at) ==
    FirstHit(pages, {k \in Visited(pages) :
                        _is_same(Flatten(pages)[k].e, author, body_raw, posted_at)})

\* resolve_reply_to_on_chapter_by_id returning the matched reply's own author
ResolveChapterReplyAuthor(pages, chapter_id, author, body_raw, posted_at) ==
    IF chapter_id = <<>> THEN <<>>
    ELSE LET h == ChapterHit(pages, author, body_raw, posted_at)
         IN IF h.kind = "reply" THEN Strip(h.e.user) ELSE <<>>

\* resolve_reply_to_on_chapter_by_id, given the entries of pages 0..2
resolve_reply_to_on_chapter_by_id(pages, chapter_id, author, body_raw, posted_at) ==
    IF chapter_id = <<>> THEN <<>>
    ELSE LET h == ChapterHit(pages, author, body_raw, posted_at)
         IN IF h.kind = "reply"
            THEN Strip(IF h.top.user # <<>> THEN h.top.user ELSE h.e.toUser)
            ELSE <<>>

\* resolve_reply_to_on_homepage_by_id, given the payload of the homepage thread
resolve_reply_to_on_homepage_by_id(data, novel_id, author, body_raw, posted_at) ==
    IF novel_id = <<>> THEN <<>>
    ELSE LET flat == Flatten(data)
             ok(k) == /\ flat[k].kind = "reply"
                      /\ _canon_name(_user_str(flat[k].e.user)) = _canon_name(author)
                      /\ _norm(flat[k].e.content) = _norm(body_raw)
                      /\ \/ _iso_dt(posted_at) = NoneDt
                         \/ _iso_dt(flat[k].e.createdAt) = NoneDt
                         \/ Abs(_iso_dt(flat[k].e.createdAt) - _iso_dt(posted_at)) <= MatchTolerance
             hits == {k \in 1..Len(flat) : ok(k)}
         IN IF hits = {} THEN <<>> ELSE _user_str(flat[Min(hits)].top.user)

\* ------------------------------------------------------------------------
\* Values of the model
\* ------------------------------------------------------------------------
A1 == <<"A">>               \* a user name
A2 == <<"a", "_">>          \* the same user, written differently
B1 == <<"B">>               \* another user
X1 == <<"x">>               \* a comment body
X2 == <<" ", "x", "zw">>    \* the same body as the thread endpoint returns it
Y1 == <<"y">>               \* another body

Title1 == <<"t", "1">>      \* a novel of HOSTING_SITE_DATA["Mistmint Haven"]
Title2 == <<"t", "2">>      \* a title the mapping does not know
NovelId1 == <<"n", "1">>
NovelSlug1 == <<"v", "1">>
SlugOpen == <<"s", "1">>    \* a chapter whose page shows its chapterId
SlugGated == <<"s", "2">>   \* a chapter whose chapterId cannot be read
ChapId == <<"c", "1">>
Chapter5 == <<"C", "5">>    \* the label "Chapter 5"
TopId == <<"7">>
ReplyId == <<"8">>
UnknownId == <<"9">>

IdOf(k) == <<<<"1", "2", "3", "4", "5", "6">>[k]>>

\* HOSTING_SITE_DATA["Mistmint Haven"]["novels"].get(title, {})
MistmintMeta(title) ==
    IF title = Title1 THEN [novel_id |-> NovelId1, novel_slug |-> NovelSlug1]
    ELSE [novel_id |-> <<>>, novel_slug |-> <<>>]

\* _mistmint_parse_chapter_label(label)[1] is not None
HasChapterNumber(label) == label = Chapter5

\* MistmintClient.get_chapter_id(novel_slug, chapter_slug)[0]
get_chapter_id(chapter_slug) == IF chapter_slug = SlugOpen THEN ChapId ELSE <<>>

\* pick(d, *cands): the first candidate key whose value is neither None nor ""
pick(d, cands) ==
    LET full == {k \in 1..Len(cands) : d[cands[k]] # <<>>}
    IN IF full = {} THEN <<>> ELSE d[cands[Min(full)]]

parent_keys == <<"parentId", "parent_id">>
reply_user_keys == <<"replyToUser", "toUser">>

Record(k, user, novel, createdAt, chapterSlug, chapter, ref) ==
    [id |-> IdOf(k), user |-> user, novel |-> novel, createdAt |-> createdAt,
     content |-> X1, chapterSlug |-> chapterSlug, chapter |-> chapter,
     replyToUser |-> ref.replyToUser, toUser |-> ref.toUser,
     parentId |-> ref.parentId, parent_id |-> ref.parent_id,
     novelId |-> <<>>, novelSlug |-> <<>>,
     chapterId |-> <<>>, commentId |-> <<>>, is_reply |-> FALSE]

NoRef == [replyToUser |-> <<>>, toUser |-> <<>>, parentId |-> <<>>, parent_id |-> <<>>]

Refs ==
    {NoRef,
     [NoRef EXCEPT !.replyToUser = A1],
     [NoRef EXCEPT !.replyToUser = B1],
     [NoRef EXCEPT !.toUser = B1],
     [NoRef EXCEPT !.parentId = IdOf(1)],
     [NoRef EXCEPT !.parentId = UnknownId],
     [NoRef EXCEPT !.parent_id = IdOf(1)],
     [NoRef EXCEPT !.replyToUser = B1, !.parent_id = IdOf(1)]}

Entry(id, user, content, createdAt, parentId, replies) ==
    [id |-> id, user |-> user, content |-> content, createdAt |-> createdAt,
     parentId |-> parentId, toUser |-> <<>>, replies |-> replies]

ReplyLists ==
    {<<>>,
     <<Entry(ReplyId, A2, X2, 100, TopId, <<>>)>>,
     <<Entry(ReplyId, A2, X2, 100, IdOf(1), <<>>)>>,
     <<Entry(ReplyId, A2, X2, 401, TopId, <<>>)>>}

Threads ==
    {<<>>} \cup {<<Entry(TopId, top.user, top.content, 100, <<>>, r)>> :
                     top \in {[user |-> A1, content |-> X2],
                              [user |-> B1, content |-> X2],
                              [user |-> B1, content |-> Y1]},
                     r \in ReplyLists}

SubjectTimes == {100, 400, BadTs}

\* the first record is on a gated chapter of a mapped novel
Contexts ==
    {[novel |-> Title1, chapterSlug |-> SlugOpen, chapter |-> Chapter5],
     [novel |-> Title1, chapterSlug |-> SlugGated, chapter |-> Chapter5],
     [novel |-> Title2, chapterSlug |-> SlugGated, chapter |-> Chapter5],
     [novel |-> Title1, chapterSlug |-> <<>>, chapter |-> Chapter5],
     [novel |-> Title1, chapterSlug |-> <<>>, chapter |-> <<>>],
     [novel |-> Title2, chapterSlug |-> <<>>, chapter |-> <<>>]}

\* ------------------------------------------------------------------------
\* load_comments_mistmint: what follows the fetch phase
\* ------------------------------------------------------------------------
\* the variables of the other parts of the program, and their idle values
otherVars == <<fetchVars, feedVars>>

FetchIdle ==
    /\ token = FALSE
    /\ cookie = FALSE
    /\ remote = <<>>
    /\ fpc = "idle"
    /\ requested = <<>>
    /\ payload = [kind |-> "None"]
    /\ raw_used = [id |-> ""]
    /\ DIAG = <<>>
    /\ outcome = ""

GateIdle ==
    /\ unstarted = 0 /\ waiting = 0 /\ inside = 0 /\ left = 0 /\ sem_value = 0

PaidIdle ==
    /\ now = 0 /\ sources = <<>> /\ results = <<>> /\ rss_items = <<>> /\ ppc = "idle"

MergeIdle ==
    /\ aggregated = <<>> /\ nu_items = <<>>

RunIdle ==
    /\ store = <<>> /\ world = <<>> /\ sent = <<>> /\ run = 0 /\ lpc = "idle"

FeedIdle == GateIdle /\ PaidIdle /\ MergeIdle /\ RunIdle

OthersIdle == FetchIdle /\ FeedIdle

Init ==
    \E subject \in [time : SubjectTimes, ctx : Contexts, ref : Refs],
       first \in {A1, B1},
       seps \in [1..(MaxItems - 1) -> {<<",">>, <<",", " ">>}],
       shape \in {"plain", "nestedSpaced"},
       alt \in BOOLEAN, th \in Threads, hm \in Threads :
        LET labelOnly == subject.ctx.chapterSlug = <<>> /\ subject.ctx.chapter # <<>>
            mapped == subject.ctx.novel = Title1
            usesAlt == labelOnly /\ mapped
            usesThread == subject.ctx.chapterSlug = SlugOpen \/ (usesAlt /\ alt)
            usesHome == mapped /\ subject.ctx.chapterSlug = <<>> /\ ~(usesAlt /\ alt)
        IN /\ (~usesAlt => ~alt)
           /\ (~usesThread => th = <<>>)
           /\ (~usesHome => hm = <<>>)
           /\ (shape # "plain" => \A k \in DOMAIN seps : seps[k] = <<",">>)
           /\ items = [k \in 1..MaxItems |->
                         IF k = 2
                         THEN Record(k, A1, subject.ctx.novel, subject.time,
                                     subject.ctx.chapterSlug, subject.ctx.chapter,
                                     subject.ref)
                         ELSE Record(k, IF k = 1 THEN first ELSE B1, Title1, 0,
                                     SlugGated, Chapter5, NoRef)]
           /\ raw = RawText("data",
                            [k \in 1..MaxItems |-> IF k = 1 THEN shape ELSE "plain"],
                            seps)
           /\ tight = [k \in 1..(MaxItems - 1) |-> seps[k] = <<",">>]
           /\ thread = th
           /\ home = hm
           /\ altFound = alt
    /\ pc = "start"
    /\ idToUser = <<>>
    /\ flags = <<>>
    /\ enriched = <<>>
    /\ i = 0
    /\ stage = "none"
    /\ replyTo = <<>>
    /\ by = ""
    /\ tried = <<>>
    /\ out = <<>>
    /\ threadCache = {}
    /\ homeCache = {}
    /\ fetches = [thread |-> 0, home |-> 0]
    /\ OthersIdle

\* id_to_user: a later record with the same id overwrites an earlier one
BuildIdToUser(its) ==
    LET ids == {its[k].id : k \in 1..Len(its)} \ {<<>>}
        last(id) == CHOOSE k \in 1..Len(its) :
                        /\ its[k].id = id
                        /\ \A j \in 1..Len(its) : its[j].id = id => j <= k
    IN [id \in ids |-> _user_str(its[last(id)].user)]

\* the pre-injection of novelId and novelSlug from the mapping
PreInject(obj) ==
    LET title == Strip(obj.novel)
        meta == MistmintMeta(title)
    IN IF title = <<>> THEN obj
       ELSE [obj EXCEPT
               !.novelId = IF obj.novelId = <<>> THEN meta.novel_id ELSE @,
               !.novelSlug = IF obj.novelSlug = <<>> THEN meta.novel_slug ELSE @]

Prepare ==
    /\ pc = "start"
    /\ idToUser' = BuildIdToUser(items)
    /\ flags' = _mistmint_reply_flags_from_raw(raw)
    /\ items' = [k \in 1..Len(items) |-> PreInject(items[k])]
    /\ pc' = "enrich"
    /\ i' = 1
    /\ UNCHANGED <<raw, tight, thread, home, altFound, enriched, stage, replyTo, by,
                   tried, out, threadCache, homeCache, fetches>>
    /\ UNCHANGED otherVars

\* --- enrich_all_comments, one iteration of its loop ---------------------

\* chapter_slug after the chapter-id block: the record's slug, or the one
\* _find_chapter_slug_live finds for its label
EnrichSlug(rec, alt) ==
    IF rec.chapterSlug # <<>> THEN rec.chapterSlug
    ELSE IF HasChapterNumber(rec.chapter) /\ rec.novelSlug # <<>> /\ alt
         THEN SlugOpen ELSE <<>>

\* the item after the chapter-thread block
EnrichChapter(rec, alt, th) ==
    LET cid == get_chapter_id(EnrichSlug(rec, alt))
        base == [rec EXCEPT !.chapterId = cid, !.is_reply = FALSE,
                            !.parentId = <<>>, !.commentId = <<>>]
        hit == IF cid = <<>> THEN NoHit
               ELSE match_comment_in_thread(th, _user_str(rec.user), rec.createdAt)
    IN IF hit.kind = "miss" THEN base
       ELSE [base EXCEPT !.commentId = hit.e.id,
                         !.is_reply = (hit.e.parentId # <<>>),
                         !.parentId = hit.e.parentId]

\* whether the homepage block runs for the item
EnrichWantsHome(rec, alt, th) ==
    /\ EnrichChapter(rec, alt, th).commentId = <<>>
    /\ EnrichSlug(rec, alt) = <<>>
    /\ rec.novelId # <<>>

\* the item enrich_all_comments appends for rec
EnrichOne(rec, alt, th, hm) ==
    LET item == EnrichChapter(rec, alt, th)
        hit == IF EnrichWantsHome(rec, alt, th)
               THEN match_comment_on_homepage_by_id(hm, _user_str(rec.user),
                                                    Strip(rec.content), rec.createdAt)
               ELSE NoHit
        parent_user == IF hit.kind = "reply" THEN _user_str(hit.top.user) ELSE <<>>
    IN IF hit.kind = "miss" THEN item
       ELSE [item EXCEPT
               !.commentId = hit.e.id,
               !.is_reply = (hit.e.parentId # <<>>),
               !.parentId = hit.e.parentId,
               !.replyToUser = IF hit.e.parentId # <<>> /\ parent_user # <<>>
                               THEN parent_user ELSE @]

Enrich ==
    /\ pc = "enrich"
    /\ LET rec == items[i]
           cid == get_chapter_id(EnrichSlug(rec, altFound))
           fetchThread == cid # <<>> /\ cid \notin threadCache
           wantsHome == EnrichWantsHome(rec, altFound, thread)
           fetchHome == wantsHome /\ rec.novelId \notin homeCache
       IN /\ enriched' = Append(enriched, EnrichOne(rec, altFound, thread, home))
          /\ threadCache' = IF cid # <<>> THEN threadCache \cup {cid} ELSE threadCache
          /\ homeCache' = IF wantsHome THEN homeCache \cup {rec.novelId} ELSE homeCache
          /\ fetches' = [thread |-> fetches.thread + (IF fetchThread THEN 1 ELSE 0),
                         home |-> fetches.home + (IF fetchHome THEN 1 ELSE 0)]
    /\ IF i < Len(items)
       THEN /\ i' = i + 1
            /\ UNCHANGED <<pc, stage>>
       ELSE /\ i' = 1
            /\ pc' = "resolve"
            /\ stage' = "hint"
    /\ UNCHANGED <<raw, tight, items, thread, home, altFound, idToUser, flags,
                   replyTo, by, tried, out>>
    /\ UNCHANGED otherVars

\* --- the resolver loop: for i, obj in enumerate(enriched) ----------------

LoaderAuthor(obj) == _user_str(obj.user)
LoaderTitle(obj) == Strip(obj.novel)
LoaderBody(obj) == Strip(obj.content)
LoaderNovelId(obj) ==
    IF obj.novelId # <<>> THEN obj.novelId ELSE MistmintMeta(LoaderTitle(obj)).novel_id
LoaderNovelSlug(obj) ==
    IF obj.novelSlug # <<>> THEN obj.novelSlug ELSE MistmintMeta(LoaderTitle(obj)).novel_slug

\* chapter_slug after the live discovery from the label
LoaderSlug(obj, alt) ==
    IF obj.chapterSlug # <<>> THEN obj.chapterSlug
    ELSE IF obj.chapter # <<>> /\ LoaderNovelSlug(obj) # <<>>
            /\ HasChapterNumber(obj.chapter) /\ alt
         THEN SlugOpen ELSE <<>>

\* is_homepage; the label "Homepage" is the empty label of the model
IsHomepage(obj, alt) == LoaderSlug(obj, alt) = <<>> /\ obj.chapter = <<>>

\* the chapter endpoint serves the thread on page 0; pages 1 and 2 are empty
ChapterPages(th) == th \o <<>> \o <<>>

PagesFetched(th, obj) ==
    IF ChapterHit(th, LoaderAuthor(obj), LoaderBody(obj), obj.createdAt).kind = "miss"
    THEN 3 ELSE 1

\* the self-reply test of the two thread strategies
SelfReplyAllowed(who, author) ==
    ALLOW_SELF_REPLIES \/ Casefold(Strip(who)) # Casefold(author)

\* reply_to = pick(obj, *reply_user_keys)
HintOf(obj) == pick(obj, reply_user_keys)

\* the parent-ID lookup
ParentIdOf(obj, id_to_user) ==
    LET pid == pick(obj, parent_keys)
    IN IF pid # <<>> /\ pid \in DOMAIN id_to_user THEN id_to_user[pid] ELSE <<>>

\* what the chapter strategy assigns
ChapterOf(obj, th) ==
    LET who == resolve_reply_to_on_chapter_by_id(ChapterPages(th), obj.chapterId,
                   LoaderAuthor(obj), LoaderBody(obj), obj.createdAt)
    IN IF who # <<>> /\ SelfReplyAllowed(who, LoaderAuthor(obj)) THEN who ELSE <<>>

\* what the homepage strategy assigns
HomepageOf(obj, hm) ==
    LET who == resolve_reply_to_on_homepage_by_id(hm, LoaderNovelId(obj),
                   LoaderAuthor(obj), LoaderBody(obj), obj.createdAt)
    IN IF who # <<>> /\ SelfReplyAllowed(who, LoaderAuthor(obj)) THEN who ELSE <<>>

_parse_when(d) == IF d.createdAt = BadTs THEN NoneDt ELSE d.createdAt

\* the chapter strategy tried whatever reply_to holds
ChapterGuardAlways(reply_to, obj) == obj.chapterId # <<>>

\* the adjacency block reading flags[i] instead of flags[i-1]
AdjacencyGuardNextFlag(reply_to, f, k) ==
    reply_to = <<>> /\ f # <<>> /\ k > 1 /\ k <= Len(f) /\ f[k]

\* the guards of the three strategies that follow the parent-ID lookup
ChapterGuard(reply_to, obj) == reply_to = <<>> /\ obj.chapterId # <<>>

HomepageGuard(reply_to, obj, alt) ==
    reply_to = <<>> /\ IsHomepage(obj, alt) /\ LoaderNovelId(obj) # <<>>

AdjacencyGuard(reply_to, f, k) ==
    reply_to = <<>> /\ f # <<>> /\ k > 1 /\ k - 1 <= Len(f) /\ f[k - 1]

\* the adjacency block without the same-novel test
AdjacencyAnyNovel(enr, k) ==
    LET prev_author == _user_str(enr[k - 1].user)
        author == LoaderAuthor(enr[k])
        t_cur == _parse_when(enr[k])
        t_prev == _parse_when(enr[k - 1])
    IN IF prev_author # <<>> /\ author # <<>> /\ prev_author # author
          /\ t_cur # NoneDt /\ t_prev # NoneDt
          /\ Abs(t_cur - t_prev) <= AdjacencyTolerance
       THEN prev_author ELSE <<>>

\* what the adjacency block assigns to record k of enr
AdjacencyOf(enr, k) ==
    LET obj == enr[k]
        prev == enr[k - 1]
        prev_author == _user_str(prev.user)
        author == LoaderAuthor(obj)
        same_novel == LoaderTitle(obj) = Strip(prev.novel)
        t_cur == _parse_when(obj)
        t_prev == _parse_when(prev)
        close_in_time == /\ t_cur # NoneDt
                         /\ t_prev # NoneDt
                         /\ Abs(t_cur - t_prev) <= AdjacencyTolerance
    IN IF prev_author # <<>> /\ author # <<>> /\ prev_author # author
          /\ same_novel /\ close_in_time
       THEN prev_author ELSE <<>>

TryHint ==
    /\ pc = "resolve" /\ stage = "hint"
    /\ replyTo' = HintOf(enriched[i])
    /\ by' = IF HintOf(enriched[i]) # <<>> THEN "hint" ELSE ""
    /\ tried' = <<"hint">>
    /\ stage' = "pid"
    /\ UNCHANGED <<raw, tight, items, thread, home, altFound, pc, idToUser, flags,
                   enriched, i, out, threadCache, homeCache, fetches>>
    /\ UNCHANGED otherVars

TryParentId ==
    /\ pc = "resolve" /\ stage = "pid"
    /\ IF replyTo = <<>>
       THEN LET who == ParentIdOf(enriched[i], idToUser)
            IN /\ replyTo' = who
               /\ by' = IF who # <<>> THEN "pid" ELSE by
               /\ tried' = Append(tried, "pid")
       ELSE UNCHANGED <<replyTo, by, tried>>
    /\ stage' = "chapter"
    /\ UNCHANGED <<raw, tight, items, thread, home, altFound, pc, idToUser, flags,
                   enriched, i, out, threadCache, homeCache, fetches>>
    /\ UNCHANGED otherVars

TryChapter ==
    /\ pc = "resolve" /\ stage = "chapter"
    /\ IF ChapterGuard(replyTo, enriched[i])
       THEN LET who == ChapterOf(enriched[i], thread)
            IN /\ replyTo' = who
               /\ by' = IF who # <<>> THEN "chapter" ELSE by
               /\ tried' = Append(tried, "chapter")
               /\ fetches' = [fetches EXCEPT
                                !.thread = @ + PagesFetched(thread, enriched[i])]
       ELSE UNCHANGED <<replyTo, by, tried, fetches>>
    /\ stage' = "home"
    /\ UNCHANGED <<raw, tight, items, thread, home, altFound, pc, idToUser, flags,
                   enriched, i, out, threadCache, homeCache>>
    /\ UNCHANGED otherVars

TryHomepage ==
    /\ pc = "resolve" /\ stage = "home"
    /\ IF HomepageGuard(replyTo, enriched[i], altFound)
       THEN LET who == HomepageOf(enriched[i], home)
                nid == LoaderNovelId(enriched[i])
            IN /\ replyTo' = who
               /\ by' = IF who # <<>> THEN "home" ELSE by
               /\ tried' = Append(tried, "home")
               /\ homeCache' = homeCache \cup {nid}
               /\ fetches' = [fetches EXCEPT
                                !.home = @ + (IF nid \in homeCache THEN 0 ELSE 1)]
       ELSE UNCHANGED <<replyTo, by, tried, homeCache, fetches>>
    /\ stage' = "adj"
    /\ UNCHANGED <<raw, tight, items, thread, home, altFound, pc, idToUser, flags,
                   enriched, i, out, threadCache>>
    /\ UNCHANGED otherVars

\* the adjacency block and out.append
TryAdjacency ==
    /\ pc = "resolve" /\ stage = "adj"
    /\ LET attempt == AdjacencyGuard(replyTo, flags, i)
           who == IF attempt THEN AdjacencyOf(enriched, i) ELSE replyTo
           winner == IF attempt /\ who # <<>> THEN "adj" ELSE by
           obj == enriched[i]
       IN out' = Append(out, [novel_title |-> LoaderTitle(obj),
                              author |-> LoaderAuthor(obj),
                              reply_to |-> who,
                              posted_at |-> obj.createdAt,
                              by |-> winner,
                              tried |-> IF attempt THEN Append(tried, "adj") ELSE tried])
    /\ replyTo' = <<>>
    /\ by' = ""
    /\ tried' = <<>>
    /\ IF i < Len(enriched)
       THEN /\ i' = i + 1
            /\ stage' = "hint"
            /\ pc' = pc
       ELSE /\ i' = i
            /\ stage' = "none"
            /\ pc' = "done"
    /\ UNCHANGED <<raw, tight, items, thread, home, altFound, idToUser, flags, enriched,
                   threadCache, homeCache, fetches>>
    /\ UNCHANGED otherVars

Next ==
    \/ Prepare
    \/ Enrich
    \/ TryHint
    \/ TryParentId
    \/ TryChapter
    \/ TryHomepage
    \/ TryAdjacency

Spec == Init /\ [][Next]_vars

\* ------------------------------------------------------------------------
\* _mistmint_reply_flags_from_raw on its own: the payloads of every envelope,
\* item shape and separator, of 1..MaxItems items
\* ------------------------------------------------------------------------
InitFlags ==
    /\ \E n \in 1..MaxItems :
         \E env \in Envelopes, shapes \in [1..n -> Shapes],
            seps \in [1..(n - 1) -> Separators] :
            /\ raw = RawText(env, shapes, seps)
            /\ tight = [k \in 1..(n - 1) |-> seps[k] = <<",">>]
            /\ items = [k \in 1..n |->
                          Record(k, B1, Title1, 0, SlugGated, Chapter5, NoRef)]
    /\ thread = <<>>
    /\ home = <<>>
    /\ altFound = FALSE
    /\ pc = "flags-start"
    /\ idToUser = <<>>
    /\ flags = <<>>
    /\ enriched = <<>>
    /\ i = 0
    /\ stage = "none"
    /\ replyTo = <<>>
    /\ by = ""
    /\ tried = <<>>
    /\ out = <<>>
    /\ threadCache = {}
    /\ homeCache = {}
    /\ fetches = [thread |-> 0, home |-> 0]
    /\ OthersIdle

ApplyFlags ==
    /\ pc = "flags-start"
    /\ flags' = _mistmint_reply_flags_from_raw(raw)
    /\ pc' = "flags-done"
    /\ UNCHANGED <<raw, tight, items, thread, home, altFound, idToUser, enriched, i,
                   stage, replyTo, by, tried, out, threadCache, homeCache, fetches>>
    /\ UNCHANGED otherVars

NextFlags == ApplyFlags

SpecFlags == InitFlags /\ [][NextFlags]_vars

\* ------------------------------------------------------------------------
\* Properties
\* ------------------------------------------------------------------------
Emitted == 1..Len(out)

\* the fetched record has no explicit reply target and no parent identifier
Bare(rec) == HintOf(rec) = <<>> /\ pick(rec, parent_keys) = <<>>

\* timestamps a and b both parse and are at most tol seconds apart
Within(a, b, tol) == a # BadTs /\ b # BadTs /\ Abs(a - b) <= tol

\* C1: every emitted record whose fetched record carries a non-empty explicit
\* reply target has that name as its reply_to.
C1_HintWins ==
    \A k \in Emitted :
        HintOf(items[k]) # <<>> => out[k].reply_to = HintOf(items[k])

\* C2: the strategies of a record are tried in the order hint, parent id,
\* chapter thread, homepage thread, adjacency; once one of them set reply_to,
\* no later one is tried, no request is issued and reply_to is emitted as it is.
Rank(strategy) ==
    CASE strategy = "hint" -> 1 [] strategy = "pid" -> 2 [] strategy = "chapter" -> 3
      [] strategy = "home" -> 4 [] strategy = "adj" -> 5

InOrder(t, winner) ==
    /\ \A a, b \in 1..Len(t) : a < b => Rank(t[a]) < Rank(t[b])
    /\ winner # "" => (t # <<>> /\ t[Len(t)] = winner)

C2_Ordered ==
    /\ \A k \in Emitted : InOrder(out[k].tried, out[k].by)
                          /\ (out[k].by = "" <=> out[k].reply_to = <<>>)
    /\ pc = "resolve" => InOrder(tried, by) /\ (by = "" <=> replyTo = <<>>)

C2_Stops ==
    (pc = "resolve" /\ stage # "hint" /\ replyTo # <<>>)
        => /\ fetches' = fetches
           /\ stage # "adj" => (replyTo' = replyTo /\ by' = by /\ tried' = tried)
           /\ stage = "adj" => /\ Len(out') = Len(out) + 1
                               /\ out'[Len(out')].reply_to = replyTo
                               /\ out'[Len(out')].by = by
                               /\ out'[Len(out')].tried = tried

C2_FirstSuccessStops == []C2_Ordered /\ [][C2_Stops]_vars

\* a record the hint resolved although its chapter thread names another
\* parent and the adjacency heuristic would have named one too
C2_Witness ==
    \E k \in Emitted :
        /\ out[k].by = "hint"
        /\ ChapterOf(enriched[k], thread) # <<>>
        /\ ChapterOf(enriched[k], thread) # out[k].reply_to
        /\ AdjacencyGuard(<<>>, flags, k)
        /\ AdjacencyOf(enriched, k) # <<>>

\* C3: an emitted record whose fetched record has no hint and a parent
\* identifier that is the id of a record of the batch has that record's
\* author as its reply_to.
C3_ParentIdLookup ==
    \A k \in Emitted :
        (HintOf(items[k]) = <<>> /\ pick(items[k], parent_keys) \in DOMAIN idToUser)
            => out[k].reply_to = idToUser[pick(items[k], parent_keys)]

\* C4 as claimed: a bare record whose chapter thread holds a nested reply
\* with equal canonical author, equal canonical body and a timestamp within
\* tolerance gets the author of the top-level entry enclosing that reply.
MatchingReplies(th, obj) ==
    LET flat == Flatten(th)
    IN {k \in 1..Len(flat) :
            /\ flat[k].kind = "reply"
            /\ _canon_name(flat[k].e.user) = _canon_name(LoaderAuthor(obj))
            /\ _norm(flat[k].e.content) = _norm(LoaderBody(obj))
            /\ Within(flat[k].e.createdAt, obj.createdAt, MatchTolerance)}

C4_AsClaimed ==
    \A k \in Emitted :
        (Bare(items[k]) /\ enriched[k].chapterId # <<>>)
            => \A r \in MatchingReplies(thread, enriched[k]) :
                   out[k].reply_to = Strip(Flatten(thread)[r].top.user)

\* C4 amended: a record without hint, whose parent identifier after
\* enrichment resolves to no record of the batch, whose chapter id is known
\* and for which the first thread entry in document order that matches is
\* such a nested reply gets the author of the enclosing top-level entry.
C4_NestedReplyParent ==
    \A k \in Emitted :
        LET obj == enriched[k]
            h == ChapterHit(ChapterPages(thread), LoaderAuthor(obj), LoaderBody(obj),
                            obj.createdAt)
        IN (/\ HintOf(items[k]) = <<>>
            /\ ParentIdOf(obj, idToUser) = <<>>
            /\ obj.chapterId # <<>>
            /\ h.kind = "reply"
            /\ Within(h.e.createdAt, obj.createdAt, MatchTolerance)
            /\ h.top.user # <<>>)
               => (out[k].reply_to = Strip(h.top.user) /\ out[k].by = "chapter")

\* the subject was matched as a nested reply of another user's entry
C4_Witness ==
    \E k \in Emitted :
        /\ Bare(items[k])
        /\ ParentIdOf(enriched[k], idToUser) = <<>>
        /\ MatchingReplies(thread, enriched[k]) # {}
        /\ out[k].by = "chapter"
        /\ out[k].reply_to = B1
        /\ out[k].author # out[k].reply_to

\* C5: a record that the chapter-thread match finds as a top-level entry of
\* its thread is emitted with an empty reply_to.
C5_TopLevelStaysTop ==
    \A k \in Emitted :
        LET obj == enriched[k]
        IN ("chapter" \in {out[k].tried[j] : j \in 1..Len(out[k].tried)}
            /\ ChapterHit(ChapterPages(thread), LoaderAuthor(obj), LoaderBody(obj),
                          obj.createdAt).kind = "top")
               => out[k].reply_to = <<>>

\* C6: when every boundary flag computed from the raw payload is set, the
\* flag list is empty and the adjacency heuristic names no parent in the batch.
C6_MinifiedDisables ==
    (pc \in {"enrich", "resolve", "done"} /\ AllSet(ComputedFlags(raw)))
        => (flags = <<>> /\ \A k \in Emitted : out[k].by # "adj")

\* a fully minified batch in which the heuristic would have named a parent
C6_Witness ==
    /\ pc = "done"
    /\ Len(ComputedFlags(raw)) >= 2
    /\ AllSet(ComputedFlags(raw))
    /\ \E k \in Emitted : /\ k > 1
                          /\ out[k].reply_to = <<>>
                          /\ AdjacencyOf(enriched, k) # <<>>

\* the adjacency preconditions of Scenario C for record k, the boundary aside
ScenarioC(k) ==
    /\ k > 1
    /\ out[k].author # out[k - 1].author
    /\ out[k].novel_title = out[k - 1].novel_title
    /\ Within(out[k].posted_at, out[k - 1].posted_at, AdjacencyTolerance)
    /\ out[k].by \notin {"hint", "pid", "chapter", "home"}

C9_OneFlagPerBoundary ==
    (pc = "flags-done" /\ DataStart(raw) # 0 /\ ~AllSet(ComputedFlags(raw)))
        => (Len(flags) = Len(items) - 1
            /\ \A k \in 1..Len(flags) : flags[k] = tight[k])

\* C10: with the policy toggle as shipped, no emitted reply_to names the
\* record's own author.
C10_NoSelfReply ==
    \A k \in Emitted :
        out[k].reply_to # <<>> => Casefold(out[k].reply_to) # Casefold(out[k].author)

\* ------------------------------------------------------------------------
\* The fetch phase of load_comments_mistmint: the credential tiers
\* ------------------------------------------------------------------------
Tiers == <<"bearer", "cookie-from-token", "cookie-secret">>

\* Python's None, and the {} that stands in for a body that is not JSON
NonePayload == [kind |-> "None", code |-> <<>>, id |-> "", data |-> <<>>]
EmptyDict == [kind |-> "dict", code |-> <<>>, id |-> "", data |-> <<>>]

Code401 == <<"4", "0", "1">>

\* What the endpoint can answer to the request of tier t.  status is the
\* HTTP status; raises is the exception requests.get raises, if any; text
\* says what r.text.lower() contains; json is r.json() (NonePayload when the
\* body is not JSON), with the value of its "code" field and its "data" list.
Answer(kind, t) ==
    LET dict(code, data) == [kind |-> "dict", code |-> code, id |-> t, data |-> data]
        list(data) == [kind |-> "list", code |-> <<>>, id |-> t, data |-> data]
        text(msg, code) == [id |-> t, loggedIn |-> msg, code401 |-> code]
        answer(st, tx, js) == [status |-> st, raises |-> "", text |-> tx, json |-> js]
    IN CASE kind = "ok" -> answer(200, text(FALSE, FALSE), dict(<<>>, <<"c1", "c2">>))
         [] kind = "okList" -> answer(200, text(FALSE, FALSE), list(<<"c1">>))
         [] kind = "html" -> answer(200, text(FALSE, FALSE), NonePayload)
         [] kind = "codeField" -> answer(200, text(FALSE, FALSE), dict(Code401, <<>>))
         [] kind = "codeText" -> answer(200, text(FALSE, TRUE), list(<<"c1">>))
         [] kind = "loggedIn" -> answer(401, text(TRUE, FALSE), NonePayload)
         [] kind = "status401" -> answer(401, text(FALSE, FALSE), dict(<<>>, <<>>))
         [] kind = "timeout" ->
              [status |-> 0, raises |-> "Timeout", text |-> text(FALSE, FALSE),
               json |-> NonePayload]
         [] OTHER ->
              [status |-> 0, raises |-> "ConnectionError", text |-> text(FALSE, FALSE),
               json |-> NonePayload]

AnswerKinds == {"ok", "okList", "html", "codeField", "codeText", "loggedIn",
                "status401", "timeout", "network"}

\* unauth(payload_text, payload_json)
unauth(payload_text, payload_json) ==
    \/ /\ payload_json.kind = "dict"
       /\ Len(payload_json.code) >= 3
       /\ SubSeq(payload_json.code, 1, 3) = Code401
    \/ payload_text.loggedIn
    \/ payload_text.code401

\* pick_list(obj), for the payloads of Answer
pick_list(obj) == IF obj.kind \in {"list", "dict"} THEN obj.data ELSE <<>>

\* r, raw, pj = get_with(h, label), and what the caller does with them:
\* accept the answer, or go on to position onReject after the diag_fail
\* kinds failKinds.  An exception leaves through diag_step, which records
\* the failed step and raises again.
Request(t, onReject, failKinds) ==
    LET r == remote[t]
    IN /\ requested' = Append(requested, t)
       /\ IF r.raises # ""
          THEN /\ DIAG' = Append(DIAG, "step:comments-fetch")
               /\ outcome' = "raised"
               /\ fpc' = "done"
               /\ UNCHANGED <<payload, raw_used>>
          ELSE IF ~unauth(r.text, r.json)
          THEN /\ payload' = IF r.json.kind # "None" THEN r.json ELSE EmptyDict
               /\ raw_used' = r.text
               /\ fpc' = "cookie-secret"
               /\ UNCHANGED <<DIAG, outcome>>
          ELSE /\ DIAG' = DIAG \o failKinds
               /\ fpc' = onReject
               /\ UNCHANGED <<payload, raw_used, outcome>>

\* if token: ... get_with(h1, "bearer")
TryBearer ==
    /\ fpc = "bearer"
    /\ IF token
       THEN Request("bearer", "cookie-from-token", <<>>)
       ELSE /\ fpc' = "cookie-secret"
            /\ UNCHANGED <<requested, payload, raw_used, DIAG, outcome>>
    /\ UNCHANGED <<token, cookie, remote, loaderVars, feedVars>>

\* else: ... get_with(h2, "cookie-from-token")
TryCookieFromToken ==
    /\ fpc = "cookie-from-token"
    /\ Request("cookie-from-token", "cookie-secret", <<"comments-fetch-unauthorized">>)
    /\ UNCHANGED <<token, cookie, remote, loaderVars, feedVars>>

\* the third tier is asked with every value of payload
SecretGuardAlways(p, c) == c

\* if payload is None and cookie:
SecretGuard(p, c) == p.kind = "None" /\ c

TryCookieSecret ==
    /\ fpc = "cookie-secret"
    /\ IF SecretGuard(payload, cookie)
       THEN Request("cookie-secret", "decide", <<"comments-fetch-unauthorized">>)
       ELSE /\ fpc' = "decide"
            /\ UNCHANGED <<requested, payload, raw_used, DIAG, outcome>>
    /\ UNCHANGED <<token, cookie, remote, loaderVars, feedVars>>

\* if payload is None: ... return out; items = pick_list(payload);
\* if not items: return out
Decide ==
    /\ fpc = "decide"
    /\ fpc' = "done"
    /\ IF payload.kind = "None"
       THEN /\ DIAG' = Append(DIAG, "comments-unauthorized")
            /\ outcome' = "empty"
       ELSE /\ DIAG' = DIAG
            /\ outcome' = IF pick_list(payload) = <<>> THEN "empty" ELSE "items"
    /\ UNCHANGED <<token, cookie, remote, requested, payload, raw_used, loaderVars, feedVars>>

LoaderIdle ==
    /\ raw = <<>> /\ tight = <<>> /\ items = <<>> /\ thread = <<>> /\ home = <<>>
    /\ altFound = FALSE /\ pc = "idle" /\ idToUser = <<>> /\ flags = <<>>
    /\ enriched = <<>> /\ i = 0 /\ stage = "none" /\ replyTo = <<>> /\ by = ""
    /\ tried = <<>> /\ out = <<>> /\ threadCache = {} /\ homeCache = {}
    /\ fetches = [thread |-> 0, home |-> 0]

InitFetch ==
    /\ token \in BOOLEAN
    /\ cookie \in BOOLEAN
    /\ \E kinds \in [1..Len(Tiers) -> AnswerKinds] :
         remote = [t \in {Tiers[k] : k \in 1..Len(Tiers)} |->
                     Answer(kinds[CHOOSE k \in 1..Len(Tiers) : Tiers[k] = t], t)]
    /\ fpc = "bearer"
    /\ requested = <<>>
    /\ payload = NonePayload
    /\ raw_used = [id |-> ""]
    /\ DIAG = <<>>
    /\ outcome = ""
    /\ LoaderIdle
    /\ FeedIdle

NextFetch ==
    \/ TryBearer
    \/ TryCookieFromToken
    \/ TryCookieSecret
    \/ Decide

SpecFetch == InitFetch /\ [][NextFetch]_vars

\* --- properties of the fetch phase ---------------------------------------

TierRank(t) == CHOOSE k \in 1..Len(Tiers) : Tiers[k] = t

Flagged(t) == unauth(remote[t].text, remote[t].json)

Accepted == payload.kind # "None"

\* the tiers the environment configures
Configured(t) == IF t = "cookie-secret" THEN cookie ELSE token

\* C11, in every state: the requests made so far are in tier order without
\* repetition, each for a configured tier; every request but the last was
\* flagged unauthorized; a tier is requested only when every earlier
\* configured tier has been requested; an accepted payload and raw text are
\* those of the last request, which was not flagged.
C11_Ordered ==
    /\ \A j, k \in 1..Len(requested) :
           j < k => TierRank(requested[j]) < TierRank(requested[k])
    /\ \A k \in 1..Len(requested) :
           /\ Configured(requested[k])
           /\ k < Len(requested) => Flagged(requested[k])
           /\ \A n \in 1..(TierRank(requested[k]) - 1) :
                  Configured(Tiers[n]) => \E j \in 1..(k - 1) : requested[j] = Tiers[n]
    /\ Accepted =>
           /\ requested # <<>>
           /\ ~Flagged(requested[Len(requested)])
           /\ raw_used = remote[requested[Len(requested)]].text
           /\ payload \in {remote[requested[Len(requested)]].json, EmptyDict}
           /\ payload = EmptyDict =>
                  remote[requested[Len(requested)]].json.kind = "None"

\* C11, in every step: a request is made only while nothing is accepted, and
\* an accepted payload and raw text are never replaced.
C11_Stops ==
    /\ requested' # requested => ~Accepted
    /\ Accepted => (payload' = payload /\ raw_used' = raw_used)

\* C11: the credential tiers are tried in the order bearer, cookie from the
\* token, cookie secret, each at most once, stopping at the first answer not
\* flagged unauthorized, whose payload and raw text are the ones used.
C11_TiersInOrder == []C11_Ordered /\ [][C11_Stops]_vars

\* the second tier was accepted after the first was flagged, and the
\* configured third tier was not requested
C11_Witness ==
    /\ fpc = "done"
    /\ cookie
    /\ requested = <<"bearer", "cookie-from-token">>
    /\ outcome = "items"
    /\ raw_used.id = "cookie-from-token"
    /\ ~Flagged("cookie-secret")

\* C12: an answer whose HTTP status is 401, or whose payload carries the
\* marker, is not accepted: its payload and text are not used, and the next
\* configured tier is requested.
C12_UnauthorizedRejected ==
    \A k \in 1..Len(requested) :
        LET t == requested[k]
            r == remote[t]
        IN (r.raises = "" /\ (r.status = 401 \/ Flagged(t)))
               => /\ raw_used # r.text
                  /\ (fpc = "done" /\ outcome # "raised")
                         => \A n \in (TierRank(t) + 1)..Len(Tiers) :
                                Configured(Tiers[n]) =>
                                    \E j \in 1..Len(requested) : requested[j] = Tiers[n]

\* C13: the call never raises; when no answer was accepted it returns an
\* empty result and a failure is recorded.
C13_TotalFailureIsEmpty ==
    /\ outcome # "raised"
    /\ (fpc = "done" /\ ~Accepted) => (outcome = "empty" /\ DIAG # <<>>)

\* ------------------------------------------------------------------------
\* load_comments_mistmint after the fetch, on records whose fields have
\* unexpected types.  The records name no chapter and a novel the mapping
\* does not know, so no thread is fetched for them.
\* ------------------------------------------------------------------------

\* the createdAt strings: with an offset, without one, and unparseable
StampAware == [tz |-> "aware", sec |-> 0]
StampNaive == [tz |-> "naive", sec |-> 30]
StampBad == [tz |-> "None", sec |-> 0]

\* the elements of the data array: a string, or an object whose "novel" is
\* a string, missing or a number
TypedShapes ==
    {[kind |-> "str", novel |-> "missing", createdAt |-> StampBad]}
    \cup [kind : {"dict"}, novel : {"str", "missing", "int"},
          createdAt : {StampAware, StampNaive, StampBad}]

\* element k of the data array: consecutive objects have different authors
TypedItem(k, sh) ==
    [kind |-> sh.kind,
     user |-> IF sh.kind # "dict" THEN <<>> ELSE IF k % 2 = 0 THEN A1 ELSE B1,
     novel |-> sh.novel,
     createdAt |-> sh.createdAt]

\* d.get(k) of pick and of the pre-injection raises AttributeError on an
\* element that is not a dict; (obj.get("novel") or ...).strip() raises it
\* on a number
PrepareRaises(its) ==
    \E k \in 1..Len(its) : its[k].kind # "dict" \/ its[k].novel = "int"

\* t_cur - t_prev raises TypeError when one datetime has an offset and the
\* other has none
SubtractRaises(a, b) == a.tz # "None" /\ b.tz # "None" /\ a.tz # b.tz

\* the adjacency block of record k raises
AdjacencyRaises(its, f, k) ==
    AdjacencyGuard(<<>>, f, k) /\ SubtractRaises(its[k].createdAt, its[k - 1].createdAt)

\* the adjacency block on these records
TypedAdjacency(its, f, k) ==
    LET cur == its[k]
        prev == its[k - 1]
    IN IF /\ AdjacencyGuard(<<>>, f, k)
          /\ prev.user # <<>> /\ cur.user # <<>> /\ prev.user # cur.user
          /\ cur.novel = prev.novel
          /\ cur.createdAt.tz # "None" /\ prev.createdAt.tz # "None"
          /\ Abs(cur.createdAt.sec - prev.createdAt.sec) <= AdjacencyTolerance
       THEN prev.user ELSE <<>>

\* id_to_user, flags, pre-injection and enrich_all_comments
PrepareTyped ==
    /\ pc = "typed-start"
    /\ flags' = _mistmint_reply_flags_from_raw(raw)
    /\ IF PrepareRaises(items)
       THEN pc' = "typed-done" /\ outcome' = "raised"
       ELSE pc' = "typed-resolve" /\ outcome' = outcome
    /\ UNCHANGED <<raw, tight, items, thread, home, altFound, idToUser, enriched, i,
                   stage, replyTo, by, tried, out, threadCache, homeCache, fetches>>
    /\ UNCHANGED <<token, cookie, remote, fpc, requested, payload, raw_used, DIAG, feedVars>>

\* the loop over the enriched records, up to return out
ResolveTyped ==
    /\ pc = "typed-resolve"
    /\ pc' = "typed-done"
    /\ IF \E k \in 2..Len(items) : AdjacencyRaises(items, flags, k)
       THEN outcome' = "raised" /\ out' = out
       ELSE /\ outcome' = "items"
            /\ out' = [k \in 1..Len(items) |->
                         [author |-> items[k].user,
                          reply_to |-> IF k > 1 THEN TypedAdjacency(items, flags, k)
                                       ELSE <<>>]]
    /\ UNCHANGED <<raw, tight, items, thread, home, altFound, idToUser, flags, enriched,
                   i, stage, replyTo, by, tried, threadCache, homeCache, fetches>>
    /\ UNCHANGED <<token, cookie, remote, fpc, requested, payload, raw_used, DIAG, feedVars>>

InitTyped ==
    /\ \E shs \in [1..MaxItems -> TypedShapes],
          env \in {"data", "bare"},
          seps \in [1..(MaxItems - 1) -> {<<",">>, <<",", " ">>}] :
         /\ items = [k \in 1..MaxItems |-> TypedItem(k, shs[k])]
         /\ raw = RawText(env, [k \in 1..MaxItems |-> "plain"], seps)
         /\ tight = [k \in 1..(MaxItems - 1) |-> seps[k] = <<",">>]
    /\ pc = "typed-start"
    /\ thread = <<>> /\ home = <<>> /\ altFound = FALSE /\ idToUser = <<>>
    /\ flags = <<>> /\ enriched = <<>> /\ i = 0 /\ stage = "none" /\ replyTo = <<>>
    /\ by = "" /\ tried = <<>> /\ out = <<>> /\ threadCache = {} /\ homeCache = {}
    /\ fetches = [thread |-> 0, home |-> 0]
    /\ OthersIdle

NextTyped ==
    \/ PrepareTyped
    \/ ResolveTyped

SpecTyped == InitTyped /\ [][NextTyped]_vars

\* C14: whatever the shape of the payload and the types of the records'
\* fields, the loader does not raise and emits one comment per record.
C14_NeverRaises ==
    /\ outcome # "raised"
    /\ pc = "typed-done" => Len(out) = Len(items)

\* ------------------------------------------------------------------------
\* Fetch failures during enrichment
\* ------------------------------------------------------------------------
\* A record of the batch names, in `fate`, the one URL whose request times
\* out while the record is processed ("ok": none does): "page" the chapter
\* page, "search" the novel page searched for the chapter slug, "thread" the
\* chapter thread endpoint, "home" the homepage comments endpoint.
IsoShapes ==
    {[ctx |-> "slug",  fate |-> f] : f \in {"ok", "page", "thread"}}
    \cup {[ctx |-> "label", fate |-> f] : f \in {"ok", "search", "page", "thread"}}
    \cup {[ctx |-> "home",  fate |-> f] : f \in {"ok", "home"}}

IsoRecord(k, sh) == [id |-> k, ctx |-> sh.ctx, fate |-> sh.fate]

\* MistmintClient._get: the request's exception is reported and re-raised
_get(rec, url) == [raises |-> rec.fate = url]

\* the requests of MistmintClient.get_chapter_id: the anonymous attempt swallows the
\* exception, the attempt with the cookie does not
get_chapter_id_fetch(rec, hasCookie) ==
    IF ~_get(rec, "page").raises THEN [raises |-> FALSE, cid |-> rec.id]
    ELSE IF hasCookie THEN [raises |-> TRUE, cid |-> 0]
    ELSE [raises |-> FALSE, cid |-> 0]

\* MistmintClient.fetch_chapter_comments
fetch_chapter_comments(rec) == _get(rec, "thread")

\* _find_chapter_slug_live
_find_chapter_slug_live(rec) == _get(rec, "search")

\* _http_get_json: every exception is caught and None returned
_http_get_json(rec) == [raises |-> FALSE, none |-> rec.fate = "home"]

\* the body of enrich_all_comments' loop for one record: whether it raises
EnrichRaises(rec, hasCookie) ==
    LET searched == rec.ctx = "label"
        slug     == rec.ctx = "slug" \/ (searched /\ ~_find_chapter_slug_live(rec).raises)
        looked   == get_chapter_id_fetch(rec, hasCookie)
    IN  \/ searched /\ _find_chapter_slug_live(rec).raises
        \/ slug /\ looked.raises
        \/ slug /\ ~looked.raises /\ looked.cid # 0 /\ fetch_chapter_comments(rec).raises
        \/ rec.ctx = "home" /\ _http_get_json(rec).raises

\* one iteration of enrich_all_comments under diag_step("comments-enrich")
EnrichRecord ==
    /\ pc = "iso-enrich"
    /\ i < Len(items)
    /\ IF EnrichRaises(items[i + 1], cookie)
       THEN /\ pc' = "iso-raised"
            /\ outcome' = "raised"
            /\ DIAG' = Append(DIAG, "step:comments-enrich")
            /\ UNCHANGED <<i, enriched>>
       ELSE /\ i' = i + 1
            /\ enriched' = Append(enriched, items[i + 1].id)
            /\ UNCHANGED <<pc, outcome, DIAG>>
    /\ UNCHANGED <<raw, tight, items, thread, home, altFound, idToUser, flags, stage,
                   replyTo, by, tried, out, threadCache, homeCache, fetches>>
    /\ UNCHANGED <<token, cookie, remote, fpc, requested, payload, raw_used, feedVars>>

\* the loader's emitting loop, once enrichment returned
EmitEnriched ==
    /\ pc = "iso-enrich"
    /\ i = Len(items)
    /\ out' = enriched
    /\ pc' = "iso-done"
    /\ outcome' = "items"
    /\ UNCHANGED <<raw, tight, items, thread, home, altFound, idToUser, flags, enriched,
                   i, stage, replyTo, by, tried, threadCache, homeCache, fetches>>
    /\ UNCHANGED <<token, cookie, remote, fpc, requested, payload, raw_used, DIAG,
                   feedVars>>

InitIso ==
    /\ \E shs \in [1..MaxItems -> IsoShapes] :
         items = [k \in 1..MaxItems |-> IsoRecord(k, shs[k])]
    /\ cookie \in BOOLEAN
    /\ pc = "iso-enrich"
    /\ raw = <<>> /\ tight = <<>> /\ thread = <<>> /\ home = <<>> /\ altFound = FALSE
    /\ idToUser = <<>> /\ flags = <<>> /\ enriched = <<>> /\ i = 0 /\ stage = "none"
    /\ replyTo = <<>> /\ by = "" /\ tried = <<>> /\ out = <<>> /\ threadCache = {}
    /\ homeCache = {} /\ fetches = [thread |-> 0, home |-> 0]
    /\ token = FALSE /\ remote = <<>> /\ fpc = "idle" /\ requested = <<>>
    /\ payload = [kind |-> "None"] /\ raw_used = [id |-> ""] /\ DIAG = <<>>
    /\ outcome = ""
    /\ FeedIdle

NextIso ==
    \/ EnrichRecord
    \/ EmitEnriched

SpecIso == InitIso /\ [][NextIso]_vars

\* C15: a request that fails for one record of the batch does not abort the
\* batch: the call does not raise, and once it is done every record of the
\* batch has been emitted.
C15_FailureIsolated ==
    /\ outcome # "raised"
    /\ pc = "iso-done" => Len(out) = Len(items)

\* ------------------------------------------------------------------------
\* paid_feed_generator.py: the admission gate of process_novel
\* ------------------------------------------------------------------------
MaxNovels == 102        \* tracked novels, one process_novel task each

\* semaphore = asyncio.Semaphore(100)
SemaphoreLimit == 100

\* Semaphore.locked(): no permit is free
locked(v) == v = 0

\* process_novel reaches `async with semaphore:`: it enters when a permit is
\* free and is suspended otherwise
AcquireUngated ==
    /\ unstarted > 0
    /\ unstarted' = unstarted - 1
    /\ inside' = inside + 1
    /\ UNCHANGED <<waiting, left, sem_value>>
    /\ UNCHANGED <<loaderVars, fetchVars, paidVars, mergeVars, runVars>>

Acquire ==
    /\ unstarted > 0
    /\ unstarted' = unstarted - 1
    /\ IF locked(sem_value)
       THEN /\ waiting' = waiting + 1
            /\ UNCHANGED <<inside, sem_value>>
       ELSE /\ sem_value' = sem_value - 1
            /\ inside' = inside + 1
            /\ UNCHANGED waiting
    /\ UNCHANGED left
    /\ UNCHANGED <<loaderVars, fetchVars, paidVars, mergeVars, runVars>>

\* process_novel leaves the `async with` block, by return or by exception:
\* the permit is released and handed to a suspended task when there is one
Leave ==
    /\ inside > 0
    /\ left' = left + 1
    /\ IF waiting > 0
       THEN /\ waiting' = waiting - 1
            /\ UNCHANGED <<inside, sem_value>>
       ELSE /\ inside' = inside - 1
            /\ sem_value' = sem_value + 1
            /\ UNCHANGED waiting
    /\ UNCHANGED unstarted
    /\ UNCHANGED <<loaderVars, fetchVars, paidVars, mergeVars, runVars>>

\* main_async has created one task per tracked novel
InitGate ==
    /\ unstarted \in 1..MaxNovels
    /\ waiting = 0 /\ inside = 0 /\ left = 0
    /\ sem_value = SemaphoreLimit
    /\ LoaderIdle /\ FetchIdle /\ PaidIdle /\ MergeIdle /\ RunIdle

NextGate ==
    \/ Acquire
    \/ Leave

\* The event loop runs every task that is ready, and every request made inside
\* the gate ends (by an answer, an error or the session's timeout), so a task
\* that can take its next step eventually takes it.
SpecGate == InitGate /\ [][NextGate]_vars /\ WF_vars(Acquire) /\ WF_vars(Leave)

\* C16: the tasks inside the gate never exceed the limit, and every task
\* eventually enters the gate and leaves it.
C16_GateBounded ==
    /\ [](inside <= SemaphoreLimit)
    /\ <>[](unstarted = 0 /\ waiting = 0 /\ inside = 0 /\ left > 0)

\* the gate is full, a task waits for it and another has already left it
C16_Witness == inside = SemaphoreLimit /\ waiting > 0 /\ left > 0

\* ------------------------------------------------------------------------
\* host_nu_comments.py: merging the Novel Updates items into the aggregated
\* comments feed
\* ------------------------------------------------------------------------
MaxBatch == 2       \* items fetched by one run of _collect_nu_items_from_mappings
MaxBlocks == 3      \* <item> blocks the aggregated file may hold

\* _xml10: the characters XML 1.0 forbids are removed ("\f" is one of them)
RECURSIVE _xml10(_)
_xml10(s) ==
    IF s = <<>> THEN <<>>
    ELSE (IF Head(s) = "\f" THEN <<>> ELSE <<Head(s)>>) \o _xml10(Tail(s))

\* xml.sax.saxutils.escape
RECURSIVE _xesc(_)
_xesc(s) ==
    IF s = <<>> THEN <<>>
    ELSE (CASE Head(s) = "&" -> <<"&", "a", "m", "p", ";">>
            [] Head(s) = "<" -> <<"&", "l", "t", ";">>
            [] Head(s) = ">" -> <<"&", "g", "t", ";">>
            [] OTHER -> <<Head(s)>>) \o _xesc(Tail(s))

\* str.strip()
RECURSIVE strip(_)
strip(s) ==
    IF s = <<>> THEN <<>>
    ELSE IF Head(s) \in {" ", "\n", "\t", "\f"} THEN strip(Tail(s))
    ELSE IF s[Len(s)] \in {" ", "\n", "\t", "\f"} THEN strip(SubSeq(s, 1, Len(s) - 1))
    ELSE s

\* _to_rfc2822 and _parse_pubdate_rfc2822: the date text of a block and the
\* time read back from it (whole seconds survive the round trip)
_to_rfc2822(t) == <<"rfc2822", t>>

_parse_pubdate_rfc2822(text) == text[2]

\* the ids the Novel Updates feeds serve
NuGuids == {<<"g">>, <<"h">>, <<"g", "&", "h">>}

\* the items the feeds serve: the entry "g" is served with either of two
\* dates, the other entries with one
NuItems == {it \in [guid : NuGuids, pubDate : 1..2] : it.guid = <<"g">> \/ it.pubDate = 1}

RECURSIVE SeqsUpTo(_, _)
SeqsUpTo(S, n) ==
    IF n = 0 THEN {<<>>}
    ELSE LET shorter == SeqsUpTo(S, n - 1)
         IN shorter \cup {Append(q, x) : q \in {r \in shorter : Len(r) = n - 1}, x \in S}

\* _build_nu_item_block: the text of the <item> block of a fetched item
_build_nu_item_block(it) ==
    [guid |-> _xesc(_xml10(it.guid)), pubDate |-> _to_rfc2822(it.pubDate)]

\* _block_guid / the _GUID_RE search of merge_into_aggregated
_block_guid(blk) == strip(blk.guid)

\* _block_pubdate
_block_pubdate(blk) == _parse_pubdate_rfc2822(blk.pubDate)

\* list.sort(key=pubDate, reverse=True): stable, newest first
RECURSIVE SortByPubDateDesc(_)
SortByPubDateDesc(blocks) ==
    IF blocks = <<>> THEN <<>>
    ELSE LET last == blocks[Len(blocks)]
             rest == SortByPubDateDesc(SubSeq(blocks, 1, Len(blocks) - 1))
             keep == {k \in 1..Len(rest) : _block_pubdate(rest[k]) >= _block_pubdate(last)}
             n    == IF keep = {} THEN 0 ELSE CHOOSE k \in keep : \A j \in keep : j <= k
         IN SubSeq(rest, 1, n) \o <<last>> \o SubSeq(rest, n + 1, Len(rest))

\* step 4 of merge_into_aggregated: the blocks built for the items whose guid
\* is not among the guids read from the file
RECURSIVE nu_blocks(_, _)
nu_blocks(batch, existing_guids) ==
    IF batch = <<>> THEN <<>>
    ELSE (IF Head(batch).guid \in existing_guids THEN <<>>
          ELSE <<_build_nu_item_block(Head(batch))>>)
         \o nu_blocks(Tail(batch), existing_guids)

\* a merge in which a fetched item replaces the file's block of the same guid
MergedOverwrite(existing_blocks, batch) ==
    LET fetched == {batch[k].guid : k \in 1..Len(batch)}
        kept    == SelectSeq(existing_blocks, LAMBDA blk : _block_guid(blk) \notin fetched)
    IN IF batch = <<>> THEN existing_blocks
       ELSE SortByPubDateDesc(kept \o nu_blocks(batch, {}))

\* the file's blocks after merge_into_aggregated(existing_blocks, batch)
Merged(existing_blocks, batch) ==
    LET existing_guids == {_block_guid(existing_blocks[k]) : k \in 1..Len(existing_blocks)}
        new            == nu_blocks(batch, existing_guids)
    IN IF batch = <<>> \/ new = <<>> THEN existing_blocks
       ELSE SortByPubDateDesc(existing_blocks \o new)

merge_into_aggregated ==
    /\ \E batch \in SeqsUpTo(NuItems, MaxBatch) :
         /\ Len(Merged(aggregated, batch)) <= MaxBlocks
         /\ nu_items' = batch
         /\ aggregated' = Merged(aggregated, batch)
    /\ UNCHANGED <<loaderVars, fetchVars, gateVars, paidVars, runVars>>

\* comments.py writes the aggregated file anew from the hosts' own feeds,
\* before the Novel Updates items are merged into it
RewriteAggregated ==
    /\ aggregated # <<>>
    /\ aggregated' = <<>>
    /\ nu_items' = <<>>
    /\ UNCHANGED <<loaderVars, fetchVars, gateVars, paidVars, runVars>>

InitMerge ==
    /\ aggregated = <<>>
    /\ nu_items = <<>>
    /\ LoaderIdle /\ FetchIdle /\ GateIdle /\ PaidIdle /\ RunIdle

NextMerge ==
    \/ merge_into_aggregated
    \/ RewriteAggregated

SpecMerge == InitMerge /\ [][NextMerge]_vars

\* C17: after any sequence of merges no two blocks of the aggregated file
\* carry the same GUID, also when the fetched batch holds two items with the
\* same GUID.
C17_NoDuplicateGuid ==
    \A j, k \in 1..Len(aggregated) :
        _block_guid(aggregated[j]) = _block_guid(aggregated[k]) => j = k

\* the guids read from the blocks of the file
GuidsOf(blocks) == {_block_guid(blocks[k]) : k \in 1..Len(blocks)}

\* how many blocks of `blocks` are the block blk
Copies(blocks, blk) == Cardinality({k \in 1..Len(blocks) : blocks[k] = blk})

ConfiguredCap == MaxBlocks - 1

\* C20: the number of blocks of the merge output never exceeds the cap.
C20_Capped == Len(aggregated) <= ConfiguredCap

\* ------------------------------------------------------------------------
\* The paid-chapter scrapers and the paid feed
\* ------------------------------------------------------------------------
\* Times are whole hours.  A chapter of a novel's listing was published `age`
\* hours before now; the site marks it free-chap or premium, and its HTML
\* shows the publication time as a date, as "N days ago", or not at all.
MaxChapters == 2        \* chapters in one novel's listing

HoursOfDay == 24

\* timedelta(days=7)
RetentionWindow == 7 * HoursOfDay

Nows == {10 * HoursOfDay + 6, 10 * HoursOfDay + 18}

ChapterShapes ==
    [free : BOOLEAN, age : {30, RetentionWindow + 2, 10 * HoursOfDay},
     shown : {"date", "ago", "none"}]

\* extract_pubdate_from_soup: "%B %d, %Y" gives the midnight of the day, a
\* text with "ago" is subtracted from the clock, anything else gives the clock
extract_pubdate_from_soup(chap, clock) ==
    CASE chap.shown = "date" -> ((clock - chap.age) \div HoursOfDay) * HoursOfDay
      [] chap.shown = "ago"  ->
            IF chap.age < HoursOfDay THEN clock - chap.age
            ELSE clock - (chap.age \div HoursOfDay) * HoursOfDay
      [] OTHER -> clock

\* novel_has_paid_update_async of paid_feed_generator.py
novel_has_paid_update_async(page, clock) ==
    /\ page # <<>>
    /\ ~page[1].free
    /\ \/ page[1].shown = "none"
       \/ (IF page[1].shown = "date" THEN extract_pubdate_from_soup(page[1], clock)
           ELSE clock) >= clock - RetentionWindow

\* scrape_paid_chapters_async of paid_feed_generator.py: free chapters are
\* skipped and the loop stops at the first chapter older than the window
RECURSIVE scrape_paid_chapters_async(_, _, _)
scrape_paid_chapters_async(page, clock, n) ==
    IF n > Len(page) THEN <<>>
    ELSE IF page[n].free THEN scrape_paid_chapters_async(page, clock, n + 1)
    ELSE LET pub_dt == extract_pubdate_from_soup(page[n], clock)
         IN IF pub_dt < clock - RetentionWindow THEN <<>>
            ELSE <<[guid |-> n, pubDate |-> pub_dt]>>
                 \o scrape_paid_chapters_async(page, clock, n + 1)

\* pub_date.replace(hour=12, minute=0, second=0)
AtNoon(t) == (t \div HoursOfDay) * HoursOfDay + 12

\* the items process_novel returns for one novel
process_novel_items(src, clock) ==
    IF ~novel_has_paid_update_async(src.page, clock) THEN <<>>
    ELSE LET paid_chapters == scrape_paid_chapters_async(src.page, clock, 1)
         IN [k \in 1..Len(paid_chapters) |->
               [guid |-> paid_chapters[k].guid,
                pubDate |-> IF src.pinned THEN AtNoon(paid_chapters[k].pubDate)
                            ELSE paid_chapters[k].pubDate]]

\* scrape_paid_chapters_async of host_dragonholic.py: branch A takes every
\* entry of the paid RSS feed, branch B the premium chapters of the page that
\* are not older than the cutoff
dragonholic_scrape(src, clock) ==
    LET paid == {k \in 1..Len(src.page) :
                    /\ ~src.page[k].free
                    /\ \/ src.paid_feed_url
                       \/ extract_pubdate_from_soup(src.page[k], clock)
                              >= clock - RetentionWindow}
        Nth(S, n) == CHOOSE k \in S : Cardinality({j \in S : j < k}) = n - 1
    IN [n \in 1..Cardinality(paid) |->
          LET k == Nth(paid, n)
          IN [guid |-> k,
              pubDate |-> IF src.paid_feed_url THEN clock - src.page[k].age
                          ELSE extract_pubdate_from_soup(src.page[k], clock)]]

\* scrape_paid_chapters_mistmint_async in API mode: every chapter the
\* endpoint lists that is not free, dated by its createdAt
mistmint_scrape(src, clock) ==
    LET paid == {k \in 1..Len(src.page) : ~src.page[k].free}
        Nth(S, n) == CHOOSE k \in S : Cardinality({j \in S : j < k}) = n - 1
    IN [n \in 1..Cardinality(paid) |->
          [guid |-> Nth(paid, n), pubDate |-> clock - src.page[Nth(paid, n)].age]]

\* rss_items.sort(key=(pubDate, chapter_num), reverse=True)
RECURSIVE SortFeed(_)
SortFeed(its) ==
    IF its = <<>> THEN <<>>
    ELSE LET last == its[Len(its)]
             rest == SortFeed(SubSeq(its, 1, Len(its) - 1))
             Key(x) == x.pubDate * (MaxChapters + 2) + x.guid
             keep == {k \in 1..Len(rest) : Key(rest[k]) >= Key(last)}
             n    == IF keep = {} THEN 0 ELSE CHOOSE k \in keep : \A j \in keep : j <= k
         IN SubSeq(rest, 1, n) \o <<last>> \o SubSeq(rest, n + 1, Len(rest))

\* a process_novel task of paid_feed_generator.py runs to its end
process_novel ==
    /\ ppc = "start"
    /\ results' = Append(results, [source |-> "html",
                                   items |-> process_novel_items(sources, now)])
    /\ ppc' = "gathered"
    /\ UNCHANGED <<now, sources, rss_items>>
    /\ UNCHANGED <<loaderVars, fetchVars, gateVars, mergeVars, runVars>>

\* main_async after asyncio.gather: the results are joined, sorted and written
main_async ==
    /\ ppc = "gathered"
    /\ rss_items' = SortFeed(results[1].items)
    /\ ppc' = "done"
    /\ UNCHANGED <<now, sources, results>>
    /\ UNCHANGED <<loaderVars, fetchVars, gateVars, mergeVars, runVars>>

\* the Dragonholic scraper of host_utils is called for the novel
ScrapeDragonholic ==
    /\ ppc = "start"
    /\ results' = Append(results,
                         [source |-> IF sources.paid_feed_url THEN "rss" ELSE "html",
                          items |-> dragonholic_scrape(sources, now)])
    /\ ppc' = "scraped"
    /\ UNCHANGED <<now, sources, rss_items>>
    /\ UNCHANGED <<loaderVars, fetchVars, gateVars, mergeVars, runVars>>

\* the Mistmint scraper of host_utils is called for the novel
ScrapeMistmint ==
    /\ ppc = "start"
    /\ results' = Append(results, [source |-> "api",
                                   items |-> mistmint_scrape(sources, now)])
    /\ ppc' = "scraped"
    /\ UNCHANGED <<now, sources, rss_items>>
    /\ UNCHANGED <<loaderVars, fetchVars, gateVars, mergeVars, runVars>>

InitPaid ==
    /\ now \in Nows
    /\ \E page \in SeqsUpTo(ChapterShapes, MaxChapters), pinned, feed \in BOOLEAN :
         sources = [page |-> page, pinned |-> pinned, paid_feed_url |-> feed]
    /\ results = <<>>
    /\ rss_items = <<>>
    /\ ppc = "start"
    /\ LoaderIdle /\ FetchIdle /\ GateIdle /\ MergeIdle /\ RunIdle

NextPaid ==
    \/ process_novel
    \/ main_async
    \/ ScrapeDragonholic
    \/ ScrapeMistmint

SpecPaid == InitPaid /\ [][NextPaid]_vars

\* C19: every entry a scraper returns and every entry of the paid feed has a
\* timestamp not older than now minus the retention window, whatever source
\* produced it.
C19_Retained ==
    /\ \A r \in 1..Len(results) : \A k \in 1..Len(results[r].items) :
          results[r].items[k].pubDate >= now - RetentionWindow
    /\ \A k \in 1..Len(rss_items) : rss_items[k].pubDate >= now - RetentionWindow

\* C21: merging is idempotent.  When the batch of the latest merge is merged
\* again into the file that merge produced, the file does not change.
C21_Idempotent ==
    [][(nu_items # <<>> /\ nu_items' = nu_items) => aggregated' = aggregated]_vars

\* C22: within one run the thread endpoint of a chapter id is requested at
\* most once: once the thread of the id is cached, no step requests it again.
C22_ThreadFetchedOnce ==
    [][threadCache # {} => fetches'.thread = fetches.thread]_vars

\* ------------------------------------------------------------------------
\* The payload caches over several runs of the loader in one process
\* ------------------------------------------------------------------------
MaxRuns == 2        \* runs of load_comments_mistmint
MaxLookups == 3     \* cache lookups recorded in `sent`

\* what the homepage endpoint answers to a run: a payload, or a failed request
HomeAnswers == {"fail", "v1", "v2"}

\* _http_get_json(url) or {}
HomePayload(answer) == IF answer = "fail" THEN "{}" ELSE answer

\* _MISTMINT_HOME_CACHE = {} at module level: filled by the lookups, emptied
\* only when the process ends
_MISTMINT_HOME_CACHE == store.home

\* thread_cache = {} at the start of enrich_all_comments
thread_cache == store.thread

\* a run of load_comments_mistmint starts in the same process
StartRun ==
    /\ lpc \in {"idle", "running"}
    /\ run < MaxRuns
    /\ run' = run + 1
    /\ \E h \in HomeAnswers : world' = [home |-> h, thread |-> h]
    /\ store' = [store EXCEPT !.thread = <<>>]
    /\ lpc' = "running"
    /\ UNCHANGED sent
    /\ UNCHANGED <<loaderVars, fetchVars, gateVars, paidVars, mergeVars>>

\* the cache-or-fetch prologue of match_comment_on_homepage_by_id and of
\* resolve_reply_to_on_homepage_by_id for novel id nid
HomepageLookup ==
    /\ lpc = "running"
    /\ Len(sent) < MaxLookups
    /\ \E nid \in {NovelId1} :
         IF nid \in DOMAIN _MISTMINT_HOME_CACHE
         THEN /\ sent' = Append(sent, [run |-> run, cache |-> "home",
                                       payload |-> _MISTMINT_HOME_CACHE[nid].payload,
                                       cached_in |-> _MISTMINT_HOME_CACHE[nid].run])
              /\ UNCHANGED store
         ELSE LET payload_ == HomePayload(world.home)
              IN /\ store' = [store EXCEPT !.home =
                                 [n \in DOMAIN @ \cup {nid} |->
                                    IF n = nid THEN [payload |-> payload_, run |-> run]
                                    ELSE @[n]]]
                 /\ sent' = Append(sent, [run |-> run, cache |-> "home",
                                          payload |-> payload_, cached_in |-> run])
    /\ UNCHANGED <<world, run, lpc>>
    /\ UNCHANGED <<loaderVars, fetchVars, gateVars, paidVars, mergeVars>>

\* the cached thread lookup of enrich_all_comments for chapter id cid
ThreadLookup ==
    /\ lpc = "running"
    /\ Len(sent) < MaxLookups
    /\ \E cid \in {ChapId} :
         IF cid \in DOMAIN thread_cache
         THEN /\ sent' = Append(sent, [run |-> run, cache |-> "thread",
                                       payload |-> thread_cache[cid].payload,
                                       cached_in |-> thread_cache[cid].run])
              /\ UNCHANGED store
         ELSE /\ world.thread # "fail"
              /\ store' = [store EXCEPT !.thread =
                              [c \in DOMAIN @ \cup {cid} |->
                                 IF c = cid THEN [payload |-> world.thread, run |-> run]
                                 ELSE @[c]]]
              /\ sent' = Append(sent, [run |-> run, cache |-> "thread",
                                       payload |-> world.thread, cached_in |-> run])
    /\ UNCHANGED <<world, run, lpc>>
    /\ UNCHANGED <<loaderVars, fetchVars, gateVars, paidVars, mergeVars>>

\* host_mistmint.py has just been imported by a new process
InitRuns ==
    /\ store = [home |-> <<>>, thread |-> <<>>]
    /\ world = [home |-> "fail", thread |-> "fail"]
    /\ sent = <<>>
    /\ run = 0
    /\ lpc = "idle"
    /\ LoaderIdle /\ FetchIdle /\ GateIdle /\ PaidIdle /\ MergeIdle

NextRuns ==
    \/ StartRun
    \/ HomepageLookup
    \/ ThreadLookup

SpecRuns == InitRuns /\ [][NextRuns]_vars

\* C23: the caches are per-run state: a payload served to a lookup, also the
\* empty payload of a failed request, was cached during the run it is served
\* to and never during an earlier run of the process.
C23_CachePerRun ==
    \A k \in 1..Len(sent) : sent[k].cached_in = sent[k].run

\* ------------------------------------------------------------------------
\* The two thread strategies applied to the same payload and record
\* ------------------------------------------------------------------------
\* payloads of a thread endpoint: those of Threads, and two whose reply has a
\* createdAt that _iso_dt cannot parse
ResolveThreads ==
    Threads \cup {<<Entry(TopId, B1, Y1, 100, <<>>,
                          <<Entry(ReplyId, A2, X2, BadTs, TopId, <<>>)>>)>>,
                  <<Entry(TopId, <<>>, Y1, 100, <<>>,
                          <<Entry(ReplyId, A2, X2, 100, TopId, <<>>)>>)>>}

\* the reply that the loop of resolve_reply_to_on_homepage_by_id accepts
HomepageHit(data, author, body_raw, posted_at) ==
    LET flat == Flatten(data)
        want_dt == _iso_dt(posted_at)
        ok(k) == /\ flat[k].kind = "reply"
                 /\ _canon_name(_user_str(flat[k].e.user)) = _canon_name(author)
                 /\ _norm(flat[k].e.content) = _norm(body_raw)
                 /\ \/ want_dt = NoneDt
                    \/ _iso_dt(flat[k].e.createdAt) = NoneDt
                    \/ Abs(_iso_dt(flat[k].e.createdAt) - want_dt) <= MatchTolerance
    IN FirstHit(data, {k \in 1..Len(flat) : ok(k)})

\* resolve_reply_to_on_chapter_by_id(client, chapter_id, author, body_raw, posted_at)
ResolveOnChapter ==
    /\ lpc = "drawn"
    /\ \A k \in 1..Len(sent) : sent[k].strategy # "chapter"
    /\ sent' = Append(sent,
          [strategy |-> "chapter",
           parent |-> resolve_reply_to_on_chapter_by_id(
                          world.data, ChapId, world.author, world.body_raw, world.posted_at),
           hit |-> ChapterHit(world.data, world.author, world.body_raw, world.posted_at)])
    /\ UNCHANGED <<store, world, run, lpc>>
    /\ UNCHANGED <<loaderVars, fetchVars, gateVars, paidVars, mergeVars>>

\* resolve_reply_to_on_homepage_by_id(novel_id, author, body_raw, posted_at)
ResolveOnHomepage ==
    /\ lpc = "drawn"
    /\ \A k \in 1..Len(sent) : sent[k].strategy # "homepage"
    /\ sent' = Append(sent,
          [strategy |-> "homepage",
           parent |-> resolve_reply_to_on_homepage_by_id(
                          world.data, NovelId1, world.author, world.body_raw, world.posted_at),
           hit |-> HomepageHit(world.data, world.author, world.body_raw, world.posted_at)])
    /\ UNCHANGED <<store, world, run, lpc>>
    /\ UNCHANGED <<loaderVars, fetchVars, gateVars, paidVars, mergeVars>>

InitResolve ==
    /\ \E data \in ResolveThreads, author \in {A1, B1}, body_raw \in {X1, Y1},
          posted_at \in SubjectTimes :
         world = [data |-> data, author |-> author, body_raw |-> body_raw,
                  posted_at |-> posted_at]
    /\ store = <<>>
    /\ sent = <<>>
    /\ run = 0
    /\ lpc = "drawn"
    /\ LoaderIdle /\ FetchIdle /\ GateIdle /\ PaidIdle /\ MergeIdle

NextResolve ==
    \/ ResolveOnChapter
    \/ ResolveOnHomepage

SpecResolve == InitResolve /\ [][NextResolve]_vars

\* C24: on the same payload and record the homepage strategy and the chapter
\* strategy return the same parent.
C24_SameParent ==
    \A j, k \in 1..Len(sent) : sent[j].parent = sent[k].parent

\* C25: an entry that either strategy accepts has the record's canonical
\* author and canonical body, and its timestamp and the record's both parse
\* and lie within 300 seconds of each other.
C25_AcceptedIsClose ==
    \A k \in 1..Len(sent) :
        sent[k].hit.kind # "miss" =>
            LET e == sent[k].hit.e
            IN /\ _canon_name(_user_str(e.user)) = _canon_name(world.author)
               /\ _norm(e.content) = _norm(world.body_raw)
               /\ _iso_dt(world.posted_at) # NoneDt
               /\ _iso_dt(e.createdAt) # NoneDt
               /\ Abs(_iso_dt(e.createdAt) - _iso_dt(world.posted_at)) <= MatchTolerance

\* ------------------------------------------------------------------------
\* The diagnostic events of the reply-target resolution of one record
\* ------------------------------------------------------------------------
\* DIAG["counts"] and DIAG["events"] as the sequence of the counted keys, each
\* with the block of the resolution that made the call
Event(strategy, key) == [strategy |-> strategy, key |-> key]

\* diag_ok(kind, **ctx) and diag_fail(kind, **ctx)
diag_ok(strategy, kind) == Event(strategy, <<"ok", kind>>)
diag_fail(strategy, kind) == Event(strategy, <<"fail", kind>>)

\* MistmintClient.fetch_chapter_comments of one page that answers
ThreadFetchEvents(strategy) ==
    <<diag_ok(strategy, "thread-json"), diag_ok(strategy, "step:thread-fetch")>>

RECURSIVE Times(_, _)
Times(sq, n) == IF n = 0 THEN <<>> ELSE sq \o Times(sq, n - 1)

\* the events of resolve_reply_to_on_chapter_by_id
ChapterEvents(obj, th) ==
    LET h == ChapterHit(ChapterPages(th), LoaderAuthor(obj), LoaderBody(obj), obj.createdAt)
    IN Times(ThreadFetchEvents("chapter"), PagesFetched(th, obj))
       \o <<CASE h.kind = "top" -> diag_ok("chapter", "reply-resolve-top")
              [] h.kind = "reply" -> diag_ok("chapter", "reply-resolve-hit")
              [] OTHER -> diag_fail("chapter", "reply-resolve-miss")>>
       \o <<diag_ok("chapter", "step:reply-resolve-chapter")>>

\* the events of resolve_reply_to_on_homepage_by_id
HomepageEvents(obj, hm, cached) ==
    <<IF cached THEN diag_ok("home", "homepage-cache-hit")
      ELSE diag_ok("home", "homepage-fetch"),
      IF HomepageHit(hm, LoaderAuthor(obj), LoaderBody(obj), obj.createdAt).kind = "reply"
      THEN diag_ok("home", "reply-resolve-homepage-hit")
      ELSE diag_fail("home", "reply-resolve-homepage-miss")>>

\* reply_to = pick(obj, *reply_user_keys)
DiagHint ==
    /\ lpc = "hint"
    /\ store' = [reply_to |-> HintOf(world.enr[2]), tried |-> <<"hint">>,
                 by |-> IF HintOf(world.enr[2]) # <<>> THEN "hint" ELSE ""]
    /\ lpc' = "pid"
    /\ UNCHANGED <<world, sent, run>>
    /\ UNCHANGED <<loaderVars, fetchVars, gateVars, paidVars, mergeVars>>

\* the parent-ID lookup in id_to_user
DiagParentId ==
    /\ lpc = "pid"
    /\ IF store.reply_to = <<>>
       THEN LET who == ParentIdOf(world.enr[2], world.id_to_user)
            IN store' = [reply_to |-> who, tried |-> Append(store.tried, "pid"),
                         by |-> IF who # <<>> THEN "pid" ELSE store.by]
       ELSE UNCHANGED store
    /\ lpc' = "chapter"
    /\ UNCHANGED <<world, sent, run>>
    /\ UNCHANGED <<loaderVars, fetchVars, gateVars, paidVars, mergeVars>>

\* the chapter-thread block
DiagChapter ==
    /\ lpc = "chapter"
    /\ IF ChapterGuard(store.reply_to, world.enr[2])
       THEN LET who == ChapterOf(world.enr[2], world.thread)
            IN /\ store' = [reply_to |-> who, tried |-> Append(store.tried, "chapter"),
                            by |-> IF who # <<>> THEN "chapter" ELSE store.by]
               /\ sent' = sent \o ChapterEvents(world.enr[2], world.thread)
       ELSE UNCHANGED <<store, sent>>
    /\ lpc' = "home"
    /\ UNCHANGED <<world, run>>
    /\ UNCHANGED <<loaderVars, fetchVars, gateVars, paidVars, mergeVars>>

\* the homepage-thread block
DiagHomepage ==
    /\ lpc = "home"
    /\ IF HomepageGuard(store.reply_to, world.enr[2], world.alt)
       THEN LET who == HomepageOf(world.enr[2], world.thread)
            IN /\ store' = [reply_to |-> who, tried |-> Append(store.tried, "home"),
                            by |-> IF who # <<>> THEN "home" ELSE store.by]
               /\ sent' = sent \o HomepageEvents(world.enr[2], world.thread, world.cached)
       ELSE UNCHANGED <<store, sent>>
    /\ lpc' = "adj"
    /\ UNCHANGED <<world, run>>
    /\ UNCHANGED <<loaderVars, fetchVars, gateVars, paidVars, mergeVars>>

\* the adjacency block
DiagAdjacency ==
    /\ lpc = "adj"
    /\ IF AdjacencyGuard(store.reply_to, world.flags, 2)
       THEN LET who == AdjacencyOf(world.enr, 2)
            IN /\ store' = [reply_to |-> who, tried |-> Append(store.tried, "adj"),
                            by |-> IF who # <<>> THEN "adj" ELSE store.by]
               /\ sent' = IF who # <<>>
                          THEN Append(sent, diag_ok("adj", "reply-adjacency-heuristic"))
                          ELSE sent
       ELSE UNCHANGED <<store, sent>>
    /\ lpc' = "done"
    /\ UNCHANGED <<world, run>>
    /\ UNCHANGED <<loaderVars, fetchVars, gateVars, paidVars, mergeVars>>

\* the second record of a batch of two, after the enrichment
InitDiag ==
    /\ \E ctx \in Contexts, ref \in Refs, time \in SubjectTimes, first \in {A1, B1},
          th \in Threads, f \in {<<>>, <<TRUE, FALSE>>, <<FALSE, FALSE>>},
          cached \in BOOLEAN :
         LET prev == Record(1, first, Title1, 100, <<>>, <<>>, NoRef)
             obj == [Record(2, A1, ctx.novel, time, ctx.chapterSlug, ctx.chapter, ref)
                       EXCEPT !.chapterId = get_chapter_id(ctx.chapterSlug)]
         IN world = [enr |-> <<prev, obj>>, id_to_user |-> BuildIdToUser(<<prev, obj>>),
                     thread |-> th, alt |-> FALSE, flags |-> f, cached |-> cached]
    /\ store = [reply_to |-> <<>>, tried |-> <<>>, by |-> ""]
    /\ sent = <<>>
    /\ run = 0
    /\ lpc = "hint"
    /\ LoaderIdle /\ FetchIdle /\ GateIdle /\ PaidIdle /\ MergeIdle

NextDiag ==
    \/ DiagHint
    \/ DiagParentId
    \/ DiagChapter
    \/ DiagHomepage
    \/ DiagAdjacency

SpecDiag == InitDiag /\ [][NextDiag]_vars

EventsOf(strategy) == {k \in 1..Len(sent) : sent[k].strategy = strategy}

\* C26: every strategy that was attempted for the record has recorded exactly
\* one diagnostic event.
C26_OneEventPerAttempt ==
    \A k \in 1..Len(store.tried) : Cardinality(EventsOf(store.tried[k])) = 1

\* ------------------------------------------------------------------------
\* comments.py: the token-expiry alert over several runs
\* ------------------------------------------------------------------------
MaxAlertRuns == 4       \* runs of maybe_dispatch_token_alerts

threshold_days == 1
SecondsOfDay == 86400

\* int(time.time()) of run number r: one run a day
NowOfRun(r) == r * SecondsOfDay

\* _jwt_expiry_unix of the configured token: 0 stands for a token without a
\* readable exp, the others are one, two and nine days after the first run
Expiries == {0, 2 * SecondsOfDay, 3 * SecondsOfDay, 10 * SecondsOfDay}

\* _load_alert_state().get(key, 0) for the one configured host
last_exp == store.last_exp

\* the operator of the repository replaces the token secret
SetToken ==
    /\ lpc = "alerts"
    /\ \E exp \in Expiries \ {world.exp} : world' = [world EXCEPT !.exp = exp]
    /\ UNCHANGED <<store, sent, run, lpc>>
    /\ UNCHANGED <<loaderVars, fetchVars, gateVars, paidVars, mergeVars>>

\* one run of maybe_dispatch_token_alerts; ok is whether requests.post and
\* raise_for_status succeed
maybe_dispatch_token_alerts ==
    /\ lpc = "alerts"
    /\ run < MaxAlertRuns
    /\ run' = run + 1
    /\ LET now_ == NowOfRun(run')
           exp == world.exp
           secs_left == exp - now_
       IN IF exp = 0 \/ secs_left > threshold_days * SecondsOfDay \/ last_exp = exp
          THEN UNCHANGED <<store, sent>>
          ELSE \E ok \in BOOLEAN :
                 IF ok
                 THEN /\ store' = [store EXCEPT !.last_exp = exp]
                      /\ sent' = Append(sent, [exp |-> exp, secs_left |-> secs_left])
                 ELSE UNCHANGED <<store, sent>>
    /\ UNCHANGED <<world, lpc>>
    /\ UNCHANGED <<loaderVars, fetchVars, gateVars, paidVars, mergeVars>>

\* no state file yet
InitAlert ==
    /\ store = [last_exp |-> 0]
    /\ \E exp \in Expiries : world = [exp |-> exp]
    /\ sent = <<>>
    /\ run = 0
    /\ lpc = "alerts"
    /\ LoaderIdle /\ FetchIdle /\ GateIdle /\ PaidIdle /\ MergeIdle

NextAlert ==
    \/ SetToken
    \/ maybe_dispatch_token_alerts

SpecAlert == InitAlert /\ [][NextAlert]_vars

\* C27: no expiry of the host's token secret has two successful dispatches,
\* every dispatch was for an expiry at most the threshold away, and the expiry
\* recorded as alerted is one whose dispatch succeeded.
C27_OncePerExpiry ==
    /\ \A j, k \in 1..Len(sent) : sent[j].exp = sent[k].exp => j = k
    /\ \A k \in 1..Len(sent) : sent[k].secs_left <= threshold_days * SecondsOfDay
    /\ last_exp # 0 => \E k \in 1..Len(sent) : sent[k].exp = last_exp

\* ------------------------------------------------------------------------
\* new_arc_rss_checker.py: the script over several runs
\* ------------------------------------------------------------------------
MaxArcRuns == 3         \* runs of the script

\* the nameextend of the " 001" entries before " 001"; "[" and "]" stand for
\* the fullwidth brackets
RawArcs == {<<"A">>, <<"*", "B", "*">>, <<"[", " ", "C", "]">>}

NotStar(ch) == ch # "*"
NotBracket(ch) == ch # "[" /\ ch # "]"

\* clean_title
clean_title(raw_title) == SelectSeq(Strip(SelectSeq(raw_title, NotStar)), NotBracket)

InSeq(x, sq) == \E k \in 1..Len(sq) : sq[k] = x

\* the loop over free_arcs_feed
RECURSIVE AddFree(_, _)
AddFree(history, arcs) ==
    IF arcs = <<>> THEN history
    ELSE LET arc == arcs[1]
             unlocked == IF InSeq(arc, history.unlocked) THEN history.unlocked
                         ELSE Append(history.unlocked, arc)
             k == IF InSeq(arc, history.locked)
                  THEN Min({j \in 1..Len(history.locked) : history.locked[j] = arc})
                  ELSE 0
             lockedNow == [j \in 1..(Len(history.locked) - (IF k = 0 THEN 0 ELSE 1)) |->
                              IF k = 0 \/ j < k THEN history.locked[j]
                              ELSE history.locked[j + 1]]
         IN AddFree([unlocked |-> unlocked, locked |-> lockedNow], Tail(arcs))

\* the loop over paid_arcs_feed
RECURSIVE AddPaid(_, _)
AddPaid(history, arcs) ==
    IF arcs = <<>> THEN history
    ELSE LET arc == arcs[1]
         IN AddPaid(IF ~InSeq(arc, history.unlocked) /\ ~InSeq(arc, history.locked)
                    THEN [history EXCEPT !.locked = Append(@, arc)]
                    ELSE history,
                    Tail(arcs))

CleanAll(raws) == [k \in 1..Len(raws) |-> clean_title(raws[k])]

\* history after the two loops
UpdatedHistory(history, feeds) ==
    AddPaid(AddFree(history, CleanAll(feeds.free)), CleanAll(feeds.paid))

\* new_locked_arc: the head of the locked list, or None
NoArc == [kind |-> "None"]
new_locked_arc(history) ==
    IF history.locked # <<>> THEN [kind |-> "str", s |-> history.locked[1]] ELSE NoArc

\* new_locked_arc == last_announced, where last_announced is a str
SameAsLast(arc, last_announced) == arc.kind = "str" /\ arc.s = last_announced

\* new_locked_arc if new_locked_arc else ""
ArcText(arc) == IF arc.kind = "str" THEN arc.s ELSE <<>>

StatusNoContent == 204
StatusError == 500

\* the novel's first chapter of an arc is published behind the paywall
PublishPaid ==
    /\ lpc = "arcs"
    /\ \E nameextend \in RawArcs :
         /\ ~InSeq(nameextend, world.paid) /\ ~InSeq(nameextend, world.free)
         /\ world' = [world EXCEPT !.paid = Append(@, nameextend)]
    /\ UNCHANGED <<store, sent, run, lpc>>
    /\ UNCHANGED <<loaderVars, fetchVars, gateVars, paidVars, mergeVars>>

\* the first chapter of a locked arc becomes free
Unlock ==
    /\ lpc = "arcs"
    /\ \E k \in 1..Len(world.paid) :
         world' = [free |-> Append(world.free, world.paid[k]),
                   paid |-> [j \in 1..(Len(world.paid) - 1) |->
                               IF j < k THEN world.paid[j] ELSE world.paid[j + 1]]]
    /\ UNCHANGED <<store, sent, run, lpc>>
    /\ UNCHANGED <<loaderVars, fetchVars, gateVars, paidVars, mergeVars>>

\* one run of the script; status_code is the answer of the webhook
new_arc_rss_checker ==
    /\ lpc = "arcs"
    /\ run < MaxArcRuns
    /\ run' = run + 1
    /\ LET history == UpdatedHistory(store.history, world)
           arc == new_locked_arc(history)
           last_announced == Strip(store.last_arc)
       IN IF SameAsLast(arc, last_announced)
          THEN /\ store' = [store EXCEPT !.history = history]
               /\ UNCHANGED sent
          ELSE \E status_code \in {StatusNoContent, StatusError} :
                 /\ store' = [history |-> history, last_arc |-> ArcText(arc)]
                 /\ sent' = Append(sent, [arc |-> arc, last |-> last_announced,
                                          status_code |-> status_code])
    /\ UNCHANGED <<world, lpc>>
    /\ UNCHANGED <<loaderVars, fetchVars, gateVars, paidVars, mergeVars>>

\* neither arc_history.json nor last_arc.txt exists, the feeds are empty
InitArc ==
    /\ store = [history |-> [unlocked |-> <<>>, locked |-> <<>>], last_arc |-> <<>>]
    /\ world = [free |-> <<>>, paid |-> <<>>]
    /\ sent = <<>>
    /\ run = 0
    /\ lpc = "arcs"
    /\ LoaderIdle /\ FetchIdle /\ GateIdle /\ PaidIdle /\ MergeIdle

NextArc ==
    \/ PublishPaid
    \/ Unlock
    \/ new_arc_rss_checker

SpecArc == InitArc /\ [][NextArc]_vars

Delivered(k) == sent[k].status_code = StatusNoContent

\* C28: every delivered notification is for the arc at the head of a locked
\* list that is not empty, that arc differs from the last announced one, and
\* no arc has two delivered notifications.
C28_AnnouncedOnce ==
    /\ \A k \in 1..Len(sent) :
         Delivered(k) => sent[k].arc.kind = "str" /\ sent[k].arc.s # sent[k].last
    /\ \A j, k \in 1..Len(sent) :
         (Delivered(j) /\ Delivered(k) /\ sent[j].arc = sent[k].arc) => j = k

\* C30: the arc that the last-arc file holds is one whose notification was
\* delivered.
C30_RecordedAfterDelivery ==
    store.last_arc # <<>> =>
        \E k \in 1..Len(sent) : Delivered(k) /\ ArcText(sent[k].arc) = store.last_arc

\* ------------------------------------------------------------------------
\* host_mistmint.py: the paid chapters of state mode over several runs
\* ------------------------------------------------------------------------
MaxStateRuns == 3       \* runs of the scraper, and edits of the state file
MaxAhead == 2           \* chapters that one edit of the state file adds

\* TDLBKGC_ARCS: arc_num, start and end of each arc
TDLBKGC_ARCS ==
    <<<<1, 1, 42>>, <<2, 43, 79>>, <<3, 80, 109>>, <<4, 110, 148>>, <<5, 149, 186>>,
      <<6, 187, 224>>, <<7, 225, 260>>, <<8, 261, 295>>, <<9, 296, 331>>,
      <<10, 332, 369>>, <<11, 370, 407>>, <<12, 408, 444>>, <<13, 445, 479>>,
      <<14, 480, 517>>, <<15, 518, 556>>, <<16, 557, 594>>, <<17, 595, 628>>,
      <<18, 629, 666>>, <<19, 667, 700>>, <<20, 701, 734>>>>

LastArcEnd == 734

\* _get_arc_for_ch: the arc_num of the first arc that holds ch, 0 for None
_get_arc_for_ch(ch) ==
    LET holds == {k \in 1..Len(TDLBKGC_ARCS) :
                     TDLBKGC_ARCS[k][2] <= ch /\ ch <= TDLBKGC_ARCS[k][3]}
    IN IF holds = {} THEN 0 ELSE TDLBKGC_ARCS[Min(holds)][1]

\* the chapters last_posted + 1 .. latest_avail in ascending order
ChapterRange(last_posted, latest_avail) ==
    [k \in 1..(latest_avail - last_posted) |-> last_posted + k]

HasArc(ch) == _get_arc_for_ch(ch) # 0

\* all_items of one novel: the guid's chapter number and the nameextend
StateItems(last_posted, latest_avail) ==
    LET chs == SelectSeq(ChapterRange(last_posted, latest_avail), HasArc)
    IN [k \in 1..Len(chs) |->
          [guid |-> chs[k],
           arc_num |-> _get_arc_for_ch(chs[k]),
           arc_local_index |->
               chs[k] - TDLBKGC_ARCS[_get_arc_for_ch(chs[k])][2] + 1]]

\* the translator raises latest_available_chapter in mistmint_state.json
RaiseLatest ==
    /\ lpc = "state"
    /\ world.edits < MaxStateRuns
    /\ \E more \in 1..MaxAhead :
         store' = [store EXCEPT !.latest_available_chapter = @ + more]
    /\ world' = [world EXCEPT !.edits = @ + 1]
    /\ UNCHANGED <<sent, run, lpc>>
    /\ UNCHANGED <<loaderVars, fetchVars, gateVars, paidVars, mergeVars>>

\* a run whose items are returned while the pointer stays where it was
ScrapeFromStateKeepPointer ==
    /\ lpc = "state"
    /\ run < MaxStateRuns
    /\ run' = run + 1
    /\ LET last_posted == store.last_posted_chapter
           latest_avail == store.latest_available_chapter
       IN IF latest_avail <= last_posted
          THEN UNCHANGED <<sent, world>>
          ELSE /\ sent' = sent \o StateItems(last_posted, latest_avail)
               /\ world' = [world EXCEPT !.due = @ \cup (last_posted + 1)..latest_avail]
    /\ UNCHANGED <<store, lpc>>
    /\ UNCHANGED <<loaderVars, fetchVars, gateVars, paidVars, mergeVars>>

\* one run of _scrape_paid_chapters_mistmint_from_state for the tracked novel;
\* world.due collects the chapters that were between the two pointers
_scrape_paid_chapters_mistmint_from_state ==
    /\ lpc = "state"
    /\ run < MaxStateRuns
    /\ run' = run + 1
    /\ LET last_posted == store.last_posted_chapter
           latest_avail == store.latest_available_chapter
       IN IF latest_avail <= last_posted
          THEN UNCHANGED <<store, sent, world>>
          ELSE /\ sent' = sent \o StateItems(last_posted, latest_avail)
               /\ store' = [store EXCEPT !.last_posted_chapter = latest_avail]
               /\ world' = [world EXCEPT !.due = @ \cup (last_posted + 1)..latest_avail]
    /\ UNCHANGED lpc
    /\ UNCHANGED <<loaderVars, fetchVars, gateVars, paidVars, mergeVars>>

\* the state file of a novel that is new, at an arc boundary, or near the end
\* of the arc table, with everything posted
InitState ==
    /\ \E posted \in {0, 42, LastArcEnd - MaxAhead} :
         store = [last_posted_chapter |-> posted, latest_available_chapter |-> posted]
    /\ world = [edits |-> 0, due |-> {}]
    /\ sent = <<>>
    /\ run = 0
    /\ lpc = "state"
    /\ LoaderIdle /\ FetchIdle /\ GateIdle /\ PaidIdle /\ MergeIdle

NextState ==
    \/ RaiseLatest
    \/ _scrape_paid_chapters_mistmint_from_state

SpecState == InitState /\ [][NextState]_vars

Emissions(ch) == Cardinality({k \in 1..Len(sent) : sent[k].guid = ch})

\* C29 as stated: every chapter that was between the two pointers at a run
\* has been emitted exactly once.
C29_AsClaimed ==
    \A ch \in world.due : Emissions(ch) = 1

\* C29: every chapter that was between the two pointers at a run and lies in
\* an arc of the arc table has been emitted exactly once, and no chapter
\* outside the arc table has been emitted.
C29_ArcChaptersOnce ==
    \A ch \in world.due : Emissions(ch) = (IF HasArc(ch) THEN 1 ELSE 0)

\* after two runs that emitted, a chapter past the last arc was passed over
C29_Witness ==
    /\ run >= 2
    /\ \E ch \in world.due : HasArc(ch) /\ ch > store.last_posted_chapter - MaxAhead
    /\ \E ch \in world.due : ~HasArc(ch)
    /\ store.last_posted_chapter > LastArcEnd
    /\ Len(sent) >= 2

====
